---- MODULE Spec2Model ----
(***************************************************************************)
(* Resumable chunk processing of large documents:                          *)
(*   llm_large_file_processor.py  ModelPricing, LargeFileProcessor         *)
(*   document_preprocessor.py     DocumentPreprocessor                     *)
(*   integrated_processor.py      IntegratedProcessor                      *)
(*   cli_processor.py             CLIProcessor                             *)
(*   app.py                       the job registry and its HTTP handlers   *)
(*                                                                         *)
(* Conventions.  A Python str is a sequence of character codes; NL is the  *)
(* newline character.  An Optional value is a sequence of length 0 (None)  *)
(* or 1 (the value).  A float amount of dollars is an integer number of    *)
(* 5e-8 dollars: prices are per million tokens and multiples of 0.05, so   *)
(* tokens/1e6 * price is tokens * (20*price) in that unit, and a million   *)
(* tokens of the dearest model fit the integers of the model checker; the  *)
(* rounding of binary floating point is not modelled.                      *)
(***************************************************************************)
EXTENDS Integers, Sequences, FiniteSets, TLC

\* ------------------------------------------------------------------------
\* Bounds of the model
\* ------------------------------------------------------------------------
MaxInvocations == 2

MaxEdits == 1

\* ------------------------------------------------------------------------
\* Program constants
\* ------------------------------------------------------------------------
DefaultChunkSize == 80000

DefaultOverlap == 4000

PlainChunkSize == 100000

PlainOverlap == 5000

ImageSizeWeight == 3000

ImageTokens == 1500

CheckpointEvery == 10

DemoOutputTokens == 500

NL == 10

InvalidByte == 255

None == << >>

Some(x) == << x >>

IsNone(o) == o = << >>

\* ------------------------------------------------------------------------
\* Python helpers
\* ------------------------------------------------------------------------
Min(a, b) == IF a < b THEN a ELSE b

Max(a, b) == IF a > b THEN a ELSE b

\* s[start:] with Python's treatment of a negative or too large start
PySliceFrom(s, start) ==
    LET n == Len(s)
        b == IF start < 0 THEN Max(n + start, 0) ELSE Min(start, n)
    IN  SubSeq(s, b + 1, n)

\* s[start:end] with Python's treatment of negative or too large bounds
PySlice(s, start, end) ==
    LET n == Len(s)
        b == IF start < 0 THEN Max(n + start, 0) ELSE Min(start, n)
        e == IF end < 0 THEN Max(n + end, 0) ELSE Min(end, n)
    IN  SubSeq(s, b + 1, e)

RECURSIVE JoinTexts(_)
\* '\n\n'.join(texts)
JoinTexts(texts) ==
    IF Len(texts) = 0 THEN << >>
    ELSE IF Len(texts) = 1 THEN texts[1]
    ELSE texts[1] \o << NL, NL >> \o JoinTexts(Tail(texts))

\* ------------------------------------------------------------------------
\* ModelPricing
\* ------------------------------------------------------------------------
MODELS ==
    [ m \in { "claude-sonnet-4-5", "claude-sonnet-4", "claude-opus-4",
              "claude-haiku-4", "gpt-4o", "gpt-4o-mini" } |->
        CASE m = "claude-sonnet-4-5" -> [input |-> 60,  output |-> 300]
          [] m = "claude-sonnet-4"   -> [input |-> 60,  output |-> 300]
          [] m = "claude-opus-4"     -> [input |-> 300, output |-> 1500]
          [] m = "claude-haiku-4"    -> [input |-> 16,  output |-> 80]
          [] m = "gpt-4o"            -> [input |-> 50,  output |-> 200]
          [] m = "gpt-4o-mini"       -> [input |-> 3,   output |-> 12] ]

\* an estimate_cost that prices a model it does not know at nothing
estimate_cost_any_model(model, input_tokens, output_tokens) ==
    IF model \notin DOMAIN MODELS
    THEN [ok |-> TRUE, cost |-> 0]
    ELSE [ok |-> TRUE,
          cost |-> input_tokens * MODELS[model].input
                   + output_tokens * MODELS[model].output]

\* estimate_cost: [ok |-> FALSE] stands for the ValueError of an unknown model
estimate_cost(model, input_tokens, output_tokens) ==
    IF model \notin DOMAIN MODELS
    THEN [ok |-> FALSE, cost |-> 0]
    ELSE [ok |-> TRUE,
          cost |-> input_tokens * MODELS[model].input
                   + output_tokens * MODELS[model].output]

\* a compare_models that leaves the output tokens out
compare_models_input_only(input_tokens, output_tokens) ==
    [ m \in DOMAIN MODELS |-> estimate_cost(m, input_tokens, 0).cost ]

compare_models(input_tokens, output_tokens) ==
    [ m \in DOMAIN MODELS |-> estimate_cost(m, input_tokens, output_tokens).cost ]

\* ------------------------------------------------------------------------
\* Files: a file is its bytes; a byte below 128 is the ASCII character of
\* that code, InvalidByte makes the file undecodable as UTF-8
\* ------------------------------------------------------------------------
Paths == { "a.txt", "b.txt", "c.pdf" }

Extension(path) ==
    CASE path = "a.txt" -> ".txt"
      [] path = "b.txt" -> ".txt"
      [] path = "c.pdf" -> ".pdf"

EmptyBytes == << >>

ShortBytes == << 1, 2, 3 >>

PdfBytes == << 37, 80, 68, 70, 45, 49, 46, 52, 10, 49, 32, 48, 10 >>

BinaryBytes == << 37, 80, InvalidByte >>

FileBytes == { EmptyBytes, ShortBytes, PdfBytes, BinaryBytes }

\* a key that does not depend on the content
calculate_file_hash_constant(bytes) == "d41d8cd9"

\* hashlib.md5 over the bytes, assumed free of collisions on FileBytes
calculate_file_hash(bytes) ==
    CASE bytes = EmptyBytes  -> "d41d8cd9"
      [] bytes = ShortBytes  -> "5289df73"
      [] bytes = PdfBytes    -> "bb1c2f0a"
      [] bytes = BinaryBytes -> "7e91a4c3"

Hashes == { calculate_file_hash(b) : b \in FileBytes }

\* open(file_path, 'r', encoding='utf-8').read()
Utf8Decodes(bytes) == \A k \in 1..Len(bytes) : bytes[k] < 128

\* ------------------------------------------------------------------------
\* DocumentPreprocessor
\* ------------------------------------------------------------------------
ExtractedContent(position, content_type, data) ==
    [position |-> position, content_type |-> content_type, data |-> data]

\* _extract_from_text: the whole file as one text unit at position 0
extract_from_text(bytes) ==
    IF Utf8Decodes(bytes)
    THEN [ok |-> TRUE, contents |-> << ExtractedContent(0, "text", bytes) >>]
    ELSE [ok |-> FALSE, contents |-> << >>]

\* What PyMuPDF yields for PdfBytes: 6 pages, each a page marker and a text
\* span, and one image on pages 2 and 4 (the library is not part of the
\* repository; the shape of the list is extract_from_pdf's)
PdfPages == 6

PdfPageHasImage(page) == page \in { 2, 4 }

RECURSIVE PdfContents(_, _, _)
PdfContents(page, position, acc) ==
    IF page > PdfPages THEN acc
    ELSE LET marker == ExtractedContent(position, "text", << NL, 45, page, 45, NL >>)
             text   == ExtractedContent(position + 1, "text", << 64 + page, 65 >>)
             image  == ExtractedContent(position + 2, "image", << 105, page >>)
         IN  IF PdfPageHasImage(page)
             THEN PdfContents(page + 1, position + 3, acc \o << marker, text, image >>)
             ELSE PdfContents(page + 1, position + 2, acc \o << marker, text >>)

extract_from_pdf(bytes) ==
    IF bytes = PdfBytes
    THEN [ok |-> TRUE, contents |-> PdfContents(1, 0, << >>)]
    ELSE [ok |-> FALSE, contents |-> << >>]

\* extract_content: dispatch on the extension
extract_content(path, bytes) ==
    CASE Extension(path) = ".txt" -> extract_from_text(bytes)
      [] Extension(path) = ".pdf" -> extract_from_pdf(bytes)
      [] OTHER -> [ok |-> FALSE, contents |-> << >>]

\* ------------------------------------------------------------------------
\* Chunk builders
\* ------------------------------------------------------------------------
\* a ChunkInfo that does not keep the index it is given
ChunkInfo_index_zero(index, content_type, text_content, image_data, token_estimate, original_position) ==
    [index |-> 0, content_type |-> content_type,
     text_content |-> text_content, image_data |-> image_data,
     token_estimate |-> token_estimate, original_position |-> original_position]

ChunkInfo(index, content_type, text_content, image_data, token_estimate, original_position) ==
    [index |-> index, content_type |-> content_type,
     text_content |-> text_content, image_data |-> image_data,
     token_estimate |-> token_estimate, original_position |-> original_position]

\* LargeFileProcessor.estimate_tokens
estimate_tokens(text, images) == (Len(text) \div 2) + images * ImageTokens

\* IntegratedProcessor._finalize_chunk; text_content is Optional, image_data
\* is the list of images with << >> for None (an empty list is never stored)
finalize_chunk(index, texts, images, start_position) ==
    LET text_content == IF Len(texts) > 0 THEN Some(JoinTexts(texts)) ELSE None
        hasText  == Len(texts) > 0 /\ Len(JoinTexts(texts)) > 0
        hasImage == Len(images) > 0
        content_type == IF hasText /\ hasImage THEN "mixed"
                        ELSE IF hasImage THEN "image" ELSE "text"
        token_estimate == (IF hasText THEN Len(JoinTexts(texts)) \div 2 ELSE 0)
                          + (IF hasImage THEN Len(images) * ImageTokens ELSE 0)
    IN  ChunkInfo(index, content_type, text_content, images, token_estimate,
                  start_position)

\* an iteration in which an image closes the chunk when the size counter
\* is over chunk_size
SmartChunkStep_image_splits(acc, content, chunk_size, overlap) ==
    IF content.content_type = "text"
    THEN LET text_size == Len(content.data)
             split == acc.current_size + text_size > chunk_size
                      /\ Len(acc.current_text) > 0
             overlap_text == PySliceFrom(acc.current_text[Len(acc.current_text)], -overlap)
             closed == IF split
                       THEN [acc EXCEPT
                               !.chunks = Append(@, finalize_chunk(acc.chunk_index,
                                              acc.current_text, acc.current_images,
                                              acc.start_position)),
                               !.chunk_index = @ + 1,
                               !.current_text = << overlap_text >>,
                               !.current_size = Len(overlap_text),
                               !.current_images = << >>,
                               !.start_position = content.position]
                       ELSE acc
         IN  [closed EXCEPT !.current_text = Append(@, content.data),
                            !.current_size = @ + text_size]
    ELSE IF content.content_type = "image"
    THEN LET image == [position |-> content.position, data |-> content.data,
                       format |-> "png"]
         IN  IF acc.current_size + ImageSizeWeight > chunk_size
                /\ (Len(acc.current_text) > 0 \/ Len(acc.current_images) > 0)
             THEN [acc EXCEPT
                     !.chunks = Append(@, finalize_chunk(acc.chunk_index,
                                    acc.current_text, acc.current_images,
                                    acc.start_position)),
                     !.chunk_index = @ + 1,
                     !.current_text = << >>,
                     !.current_images = << image >>,
                     !.current_size = ImageSizeWeight,
                     !.start_position = content.position]
             ELSE [acc EXCEPT !.current_images = Append(@, image),
                              !.current_size = @ + ImageSizeWeight]
    ELSE acc

\* one iteration of the loop of _create_smart_chunks over the locals
SmartChunkStep(acc, content, chunk_size, overlap) ==
    IF content.content_type = "text"
    THEN LET text_size == Len(content.data)
             split == acc.current_size + text_size > chunk_size
                      /\ Len(acc.current_text) > 0
             overlap_text == PySliceFrom(acc.current_text[Len(acc.current_text)], -overlap)
             closed == IF split
                       THEN [acc EXCEPT
                               !.chunks = Append(@, finalize_chunk(acc.chunk_index,
                                              acc.current_text, acc.current_images,
                                              acc.start_position)),
                               !.chunk_index = @ + 1,
                               !.current_text = << overlap_text >>,
                               !.current_size = Len(overlap_text),
                               !.current_images = << >>,
                               !.start_position = content.position]
                       ELSE acc
         IN  [closed EXCEPT !.current_text = Append(@, content.data),
                            !.current_size = @ + text_size]
    ELSE IF content.content_type = "image"
    THEN [acc EXCEPT
            !.current_images = Append(@, [position |-> content.position,
                                          data |-> content.data,
                                          format |-> "png"]),
            !.current_size = @ + ImageSizeWeight]
    ELSE acc

RECURSIVE SmartChunkLoop(_, _, _, _)
SmartChunkLoop(acc, contents, chunk_size, overlap) ==
    IF Len(contents) = 0 THEN acc
    ELSE SmartChunkLoop(SmartChunkStep(acc, Head(contents), chunk_size, overlap),
                        Tail(contents), chunk_size, overlap)

\* _create_smart_chunks: the locals before the loop
SmartChunkLocals ==
    [chunks |-> << >>, current_text |-> << >>, current_images |-> << >>,
     current_size |-> 0, chunk_index |-> 0, start_position |-> 0]

\* IntegratedProcessor._create_smart_chunks
create_smart_chunks(contents, chunk_size, overlap) ==
    LET acc  == SmartChunkLoop(SmartChunkLocals, contents, chunk_size, overlap)
    IN  IF Len(acc.current_text) > 0 \/ Len(acc.current_images) > 0
        THEN Append(acc.chunks, finalize_chunk(acc.chunk_index, acc.current_text,
                                               acc.current_images, acc.start_position))
        ELSE acc.chunks

\* create_chunks: the locals before the loop
PlainChunkLocals == [chunks |-> << >>, start |-> 0, index |-> 0]

\* create_chunks: the condition of the while loop
PlainChunkMore(content, locals) == locals.start < Len(content)

\* an iteration that leaves the start offset where it was
PlainChunkStep_start_kept(content, chunk_size, overlap, locals) ==
    LET end == locals.start + chunk_size
        chunk_text == PySlice(content, locals.start, end)
    IN  [chunks |-> Append(locals.chunks,
                           ChunkInfo(locals.index, "text", Some(chunk_text), << >>,
                                     estimate_tokens(chunk_text, 0), locals.start)),
         start |-> locals.start,
         index |-> locals.index + 1]

\* create_chunks: one iteration of the while loop over the locals
PlainChunkStep(content, chunk_size, overlap, locals) ==
    LET end == locals.start + chunk_size
        chunk_text == PySlice(content, locals.start, end)
    IN  [chunks |-> Append(locals.chunks,
                           ChunkInfo(locals.index, "text", Some(chunk_text), << >>,
                                     estimate_tokens(chunk_text, 0), locals.start)),
         start |-> end - overlap,
         index |-> locals.index + 1]

RECURSIVE PlainChunkLoop(_, _, _, _)
PlainChunkLoop(content, chunk_size, overlap, locals) ==
    IF ~PlainChunkMore(content, locals) THEN locals.chunks
    ELSE PlainChunkLoop(content, chunk_size, overlap,
                        PlainChunkStep(content, chunk_size, overlap, locals))

\* LargeFileProcessor.create_chunks on the decoded file content; the loop
\* ends only when chunk_size exceeds overlap or the content is empty
create_chunks(content, chunk_size, overlap) ==
    PlainChunkLoop(content, chunk_size, overlap, PlainChunkLocals)

\* ------------------------------------------------------------------------
\* State of the program
\* ------------------------------------------------------------------------
VARIABLES
    fs,               \* the file system: path -> Optional bytes
    state_dir,        \* processing_states/<hash>.json: hash -> Optional dict
    chunk_dir,        \* chunks/<hash>_chunks.json: hash -> Optional chunk list
    now,              \* the clock read by datetime.now()
    pause_requested,  \* IntegratedProcessor.pause_requested
    api_client,       \* IntegratedProcessor.api_client
    current_state,    \* LargeFileProcessor.current_state (Optional)
    pc,               \* position of the caller: "idle", "loop", "call", "done",
                      \* or "crashed" when the process was killed
    outcome,          \* how the last invocation ended
    chunks,           \* _process_chunks: the chunk list
    state,            \* _process_chunks: the ProcessingState (Optional)
    aliased,          \* state and current_state are the same object
    model,            \* _process_chunks: the model argument
    i,                \* _process_chunks: the loop index
    submitted,        \* chunk indices handed to the LLM client in this run
    invocations,      \* number of process_file / resume calls so far
    edits,            \* number of file modifications so far
    jobs,             \* app.py: jobs, job id -> Optional job dict
    job_locks,        \* app.py: job_locks, job id -> Optional lock
    worker,           \* app.py: position of the thread of each job
    response,         \* app.py: the last HTTP response sent
    builder_input,    \* arguments of a call of _create_smart_chunks
    builder_chunks,   \* what that call returned (Optional)
    plain_frame,      \* create_chunks: position and locals of a call on the
                      \* same document with the same chunk size and overlap
    pricing_call,     \* arguments of a call of ModelPricing
    pricing_result    \* what estimate_cost and compare_models returned for
                      \* them (each Optional)

vars == << fs, state_dir, chunk_dir, now, pause_requested, api_client,
           current_state, pc, outcome, chunks, state, aliased, model, i,
           submitted, invocations, edits, jobs, job_locks, worker, response,
           builder_input, builder_chunks, plain_frame,
           pricing_call, pricing_result >>

httpVars == << jobs, job_locks, worker, response >>

builderVars == << builder_input, builder_chunks, plain_frame >>

pricingVars == << pricing_call, pricing_result >>

engineVars == << fs, state_dir, chunk_dir, now, pause_requested, api_client,
                 current_state, pc, outcome, chunks, state, aliased, model, i,
                 submitted, invocations, edits >>

processorVars == << pause_requested, api_client, current_state >>

frameVars == << chunks, state, aliased, model, i, submitted >>

\* usage figures a provider reports for one call
Usages == { [input_tokens |-> 3, output_tokens |-> 2] }

\* ------------------------------------------------------------------------
\* ProcessingState and the state store
\* ------------------------------------------------------------------------
ProcessingState(file_path, file_hash, total_chunks, processed_chunks, current_model, total_cost, results, created_at, updated_at) ==
    [file_path |-> file_path, file_hash |-> file_hash,
     total_chunks |-> total_chunks, processed_chunks |-> processed_chunks,
     current_model |-> current_model, total_cost |-> total_cost,
     results |-> results, created_at |-> created_at, updated_at |-> updated_at]

\* ProcessingState.to_dict / json.dump
to_dict(st) ==
    [file_path |-> st.file_path, file_hash |-> st.file_hash,
     total_chunks |-> st.total_chunks, processed_chunks |-> st.processed_chunks,
     current_model |-> st.current_model, total_cost |-> st.total_cost,
     results |-> st.results, created_at |-> st.created_at,
     updated_at |-> st.updated_at]

\* json.load / ProcessingState.from_dict
from_dict(data) ==
    ProcessingState(data.file_path, data.file_hash, data.total_chunks,
                    data.processed_chunks, data.current_model, data.total_cost,
                    data.results, data.created_at, data.updated_at)

\* save_state: stamps updated_at on the object and writes <file_hash>.json;
\* yields the stamped object and the new directory
save_state(dir, st, t) ==
    LET stamped == [st EXCEPT !.updated_at = t]
    IN  [state |-> stamped,
         dir   |-> [dir EXCEPT ![stamped.file_hash] = Some(to_dict(stamped))]]

\* what a file holds when the process dies inside `with open(state_file, 'w')`
\* (lines 150-151): open() has emptied the file and json.dump has written
\* only a strict prefix of the text.  << d, Truncated >> is such a file, d
\* being the dict that was on its way to the disk.
Truncated == "truncated"

IsTruncated(file) == Len(file) = 2

save_state_interrupted(dir, st, t) ==
    LET stamped == [st EXCEPT !.updated_at = t]
    IN  [dir EXCEPT ![stamped.file_hash] = << to_dict(stamped), Truncated >>]

\* a json.load that accepts whatever text it finds
load_state_raises_never(dir, bytes) == FALSE

\* load_state: json.load raises JSONDecodeError on a truncated file, and
\* nothing in load_state catches it
load_state_raises(dir, bytes) == IsTruncated(dir[calculate_file_hash(bytes)])

\* load_state on the bytes of an existing file, when it returns
load_state(dir, bytes) ==
    LET state_file == dir[calculate_file_hash(bytes)]
    IN  IF IsNone(state_file) THEN None ELSE Some(from_dict(state_file[1]))

\* an initialize that never looks for a saved state
initialize_processing_fresh(dir, path, bytes, model_arg, answer, t) ==
    LET fresh == ProcessingState(path, calculate_file_hash(bytes),
                     Len(create_chunks(bytes, PlainChunkSize, PlainOverlap)),
                     0, model_arg, 0, << >>, t, t)
        saved == save_state(dir, fresh, t)
    IN  IF ~Utf8Decodes(bytes)
        THEN [ok |-> FALSE, state |-> None, dir |-> dir, saves |-> 0]
        ELSE [ok |-> TRUE, state |-> Some(saved.state), dir |-> saved.dir,
              saves |-> 1]

\* initialize_processing; answer is what the user types at the prompt shown
\* when a saved state exists
initialize_processing(dir, path, bytes, model_arg, answer, t) ==
    LET file_hash == calculate_file_hash(bytes)
        existing_state == load_state(dir, bytes)
    IN  IF load_state_raises(dir, bytes)
        THEN [ok |-> FALSE, state |-> None, dir |-> dir, saves |-> 0]
        ELSE IF ~IsNone(existing_state) /\ answer = "y"
        THEN [ok |-> TRUE, state |-> existing_state, dir |-> dir, saves |-> 0]
        ELSE IF ~Utf8Decodes(bytes)
        THEN [ok |-> FALSE, state |-> None, dir |-> dir, saves |-> 0]
        ELSE LET fresh == ProcessingState(path, file_hash,
                              Len(create_chunks(bytes, PlainChunkSize, PlainOverlap)),
                              0, model_arg, 0, << >>, t, t)
                 saved == save_state(dir, fresh, t)
             IN  [ok |-> TRUE, state |-> Some(saved.state), dir |-> saved.dir,
                  saves |-> 1]

\* a change of model that stays in memory
change_model_unsaved(dir, cur, new_model, t) ==
    IF IsNone(cur)
    THEN [ok |-> FALSE, state |-> cur, dir |-> dir]
    ELSE [ok |-> TRUE, state |-> Some([cur[1] EXCEPT !.current_model = new_model]),
          dir |-> dir]

\* change_model on the object held in current_state
change_model(dir, cur, new_model, t) ==
    IF IsNone(cur)
    THEN [ok |-> FALSE, state |-> cur, dir |-> dir]
    ELSE LET saved == save_state(dir, [cur[1] EXCEPT !.current_model = new_model], t)
         IN  [ok |-> TRUE, state |-> Some(saved.state), dir |-> saved.dir]

RECURSIVE SumTokens(_, _)
SumTokens(cs, from) ==
    IF from > Len(cs) THEN 0 ELSE cs[from].token_estimate + SumTokens(cs, from + 1)

\* estimate_remaining_cost
estimate_remaining_cost(cs, start_index, model_arg, output_tokens_per_chunk) ==
    LET remaining == PySliceFrom(cs, start_index)
        total_input_tokens == SumTokens(remaining, 1)
        total_output_tokens == Len(remaining) * output_tokens_per_chunk
        cost == estimate_cost(model_arg, total_input_tokens, total_output_tokens)
    IN  [ok |-> cost.ok,
         remaining_chunks |-> Len(remaining),
         input_tokens |-> total_input_tokens,
         output_tokens |-> total_output_tokens,
         estimated_cost |-> cost.cost,
         model_comparison |-> compare_models(total_input_tokens, total_output_tokens)]

\* preprocess_and_chunk: the list of dicts written to <hash>_chunks.json
chunk_data(cs) ==
    [k \in 1..Len(cs) |->
        [index |-> cs[k].index, content_type |-> cs[k].content_type,
         text_content |-> cs[k].text_content, image_data |-> cs[k].image_data,
         token_estimate |-> cs[k].token_estimate,
         original_position |-> cs[k].original_position]]

\* preprocess_and_chunk: [ChunkInfo(**c) for c in chunk_data] on the list
\* read back from the file
load_chunks(data) ==
    [k \in 1..Len(data) |->
        ChunkInfo(data[k].index, data[k].content_type, data[k].text_content,
                  data[k].image_data, data[k].token_estimate,
                  data[k].original_position)]

\* a preprocess_and_chunk that extracts and builds whether or not a chunk
\* file exists
preprocess_and_chunk_rebuilds(cdir, path, bytes, chunk_size, overlap) ==
    LET file_hash == calculate_file_hash(bytes)
        extracted == extract_content(path, bytes)
        built     == create_smart_chunks(extracted.contents, chunk_size, overlap)
    IN  IF ~extracted.ok
        THEN [ok |-> FALSE, chunks |-> << >>, cdir |-> cdir]
        ELSE [ok |-> TRUE, chunks |-> built,
              cdir |-> [cdir EXCEPT ![file_hash] = Some(chunk_data(built))]]

\* preprocess_and_chunk on the bytes of an existing file
preprocess_and_chunk(cdir, path, bytes, chunk_size, overlap) ==
    LET file_hash == calculate_file_hash(bytes)
        extracted == extract_content(path, bytes)
        built     == create_smart_chunks(extracted.contents, chunk_size, overlap)
    IN  IF ~IsNone(cdir[file_hash])
        THEN [ok |-> TRUE, chunks |-> load_chunks(cdir[file_hash][1]), cdir |-> cdir]
        ELSE IF ~extracted.ok
        THEN [ok |-> FALSE, chunks |-> << >>, cdir |-> cdir]
        ELSE [ok |-> TRUE, chunks |-> built,
              cdir |-> [cdir EXCEPT ![file_hash] = Some(chunk_data(built))]]

\* ------------------------------------------------------------------------
\* Entry points: everything up to the call of _process_chunks
\* ------------------------------------------------------------------------
DefaultOutputTokens == 1000

NoModelArg == ""

Callable == pc \in { "idle", "done" } /\ invocations < MaxInvocations

\* what an entry point leaves behind when it ends before the loop
Ended(how, cdir, sdir, t, cur) ==
    [kind |-> how, chunk_dir |-> cdir, state_dir |-> sdir, now |-> t,
     current_state |-> cur, chunks |-> << >>, state |-> None,
     aliased |-> FALSE, model |-> NoModelArg, client_set |-> FALSE]

\* IntegratedProcessor.process_file up to "4. 처리 시작"
process_file(path, model_arg, answer, confirm) ==
    IF IsNone(fs[path])
    THEN Ended("raised", chunk_dir, state_dir, now, current_state)
    ELSE
    LET bytes == fs[path][1]
        pre   == preprocess_and_chunk(chunk_dir, path, bytes,
                                      DefaultChunkSize, DefaultOverlap)
        init  == initialize_processing(state_dir, path, bytes, model_arg, answer, now)
        t1    == now + init.saves
        est   == estimate_remaining_cost(pre.chunks, init.state[1].processed_chunks,
                                         model_arg, DefaultOutputTokens)
        switch == confirm \notin { "auto", "y", "n" } /\ confirm \in DOMAIN MODELS
        cm    == change_model(init.dir, init.state, confirm, t1)
    IN  IF ~pre.ok
        THEN Ended("raised", chunk_dir, state_dir, now, current_state)
        ELSE IF ~init.ok
        THEN Ended("raised", pre.cdir, state_dir, now, current_state)
        ELSE IF ~est.ok
        THEN Ended("raised", pre.cdir, init.dir, t1, init.state)
        ELSE IF confirm = "n"
        THEN [Ended("declined", pre.cdir, init.dir, t1, init.state)
                 EXCEPT !.state = init.state, !.aliased = TRUE]
        ELSE IF switch
        THEN [kind |-> "run", chunk_dir |-> pre.cdir, state_dir |-> cm.dir,
              now |-> t1 + 1, current_state |-> cm.state, chunks |-> pre.chunks,
              state |-> cm.state, aliased |-> TRUE, model |-> confirm,
              client_set |-> FALSE]
        ELSE [kind |-> "run", chunk_dir |-> pre.cdir, state_dir |-> init.dir,
              now |-> t1, current_state |-> init.state, chunks |-> pre.chunks,
              state |-> init.state, aliased |-> TRUE, model |-> model_arg,
              client_set |-> FALSE]

\* CLIProcessor.resume up to "처리 재개"
resume(path, model_opt) ==
    IF IsNone(fs[path])
    THEN Ended("raised", chunk_dir, state_dir, now, current_state)
    ELSE
    LET bytes  == fs[path][1]
        loaded == load_state(state_dir, bytes)
        switch == model_opt # NoModelArg /\ model_opt # loaded[1].current_model
        cm     == IF switch THEN change_model(state_dir, current_state, model_opt, now)
                  ELSE [ok |-> TRUE, state |-> current_state, dir |-> state_dir]
        t1     == IF switch /\ cm.ok THEN now + 1 ELSE now
        pre    == preprocess_and_chunk(chunk_dir, path, bytes,
                                       DefaultChunkSize, DefaultOverlap)
    IN  IF load_state_raises(state_dir, bytes)
        THEN Ended("raised", chunk_dir, state_dir, now, current_state)
        ELSE IF IsNone(loaded)
        THEN Ended("nostate", chunk_dir, state_dir, now, current_state)
        ELSE IF ~cm.ok
        THEN Ended("raised", chunk_dir, state_dir, now, current_state)
        ELSE IF ~pre.ok
        THEN [Ended("raised", chunk_dir, cm.dir, t1, cm.state)
                 EXCEPT !.client_set = TRUE]
        ELSE [kind |-> "run", chunk_dir |-> pre.cdir, state_dir |-> cm.dir,
              now |-> t1, current_state |-> cm.state, chunks |-> pre.chunks,
              state |-> loaded, aliased |-> FALSE,
              model |-> loaded[1].current_model, client_set |-> TRUE]

\* a run that starts over instead of resuming
start_index_zero(st) == 0

\* _process_chunks: start_index = state.processed_chunks
start_index(st) == st.processed_chunks

\* the entry point hands over to _process_chunks, or ends
Enter(r) ==
    /\ chunk_dir' = r.chunk_dir
    /\ state_dir' = r.state_dir
    /\ now' = r.now
    /\ current_state' = r.current_state
    /\ chunks' = r.chunks
    /\ state' = r.state
    /\ aliased' = r.aliased
    /\ model' = r.model
    /\ submitted' = << >>
    /\ invocations' = invocations + 1
    /\ IF r.kind = "run"
       THEN pc' = "loop" /\ outcome' = "running"
                         /\ i' = start_index(r.state[1])
       ELSE pc' = "done" /\ outcome' = r.kind /\ i' = 0

\* CLIProcessor.process: set the client, then process_file
Process(path, client, model_arg, answer, confirm) ==
    /\ Callable
    /\ api_client' = client
    /\ Enter(process_file(path, model_arg, answer, confirm))
    /\ UNCHANGED << fs, pause_requested, edits >>
    /\ UNCHANGED << httpVars, builderVars, pricingVars >>

\* CLIProcessor.resume; the client is set only after change_model returned
Resume(path, client, model_opt) ==
    /\ Callable
    /\ LET r == resume(path, model_opt)
       IN  /\ Enter(r)
           /\ api_client' = IF r.client_set THEN client ELSE api_client
    /\ UNCHANGED << fs, pause_requested, edits >>
    /\ UNCHANGED << httpVars, builderVars, pricingVars >>

\* ------------------------------------------------------------------------
\* IntegratedProcessor._process_chunks, one action per step of the loop
\* ------------------------------------------------------------------------
\* the object `state` after a mutation, and current_state when it is the
\* same object
SetState(st) ==
    /\ state' = Some(st)
    /\ current_state' = IF aliased THEN Some(st) ELSE current_state

\* self.file_processor.save_state(state), n times in a row
SaveTimes(st, n) ==
    IF n = 0
    THEN /\ SetState(st)
         /\ UNCHANGED << state_dir, now >>
    ELSE LET saved == save_state(state_dir, st, now + n - 1)
         IN  /\ SetState(saved.state)
             /\ state_dir' = saved.dir
             /\ now' = now + n

\* a loop end that forgets the final save
Finish_nosave ==
    /\ pc = "loop"
    /\ ~(i < Len(chunks))
    /\ SaveTimes(state[1], 0)
    /\ pc' = "done"
    /\ outcome' = "completed"
    /\ UNCHANGED << fs, chunk_dir, pause_requested, api_client, chunks, aliased,
                    model, i, submitted, invocations, edits >>
    /\ UNCHANGED << httpVars, builderVars, pricingVars >>

\* range(start_index, len(chunks)) is exhausted: the final save
Finish ==
    /\ pc = "loop"
    /\ ~(i < Len(chunks))
    /\ SaveTimes(state[1], 1)
    /\ pc' = "done"
    /\ outcome' = "completed"
    /\ UNCHANGED << fs, chunk_dir, pause_requested, api_client, chunks, aliased,
                    model, i, submitted, invocations, edits >>
    /\ UNCHANGED << httpVars, builderVars, pricingVars >>

\* a pause that stops without saving
PauseStop_nosave ==
    /\ pc = "loop"
    /\ i < Len(chunks)
    /\ pause_requested
    /\ SaveTimes(state[1], 0)
    /\ pc' = "done"
    /\ outcome' = "paused"
    /\ UNCHANGED << fs, chunk_dir, pause_requested, api_client, chunks, aliased,
                    model, i, submitted, invocations, edits >>
    /\ UNCHANGED << httpVars, builderVars, pricingVars >>

\* the pause flag is seen at the top of an iteration: save, break, final save
PauseStop ==
    /\ pc = "loop"
    /\ i < Len(chunks)
    /\ pause_requested
    /\ SaveTimes(state[1], 2)
    /\ pc' = "done"
    /\ outcome' = "paused"
    /\ UNCHANGED << fs, chunk_dir, pause_requested, api_client, chunks, aliased,
                    model, i, submitted, invocations, edits >>
    /\ UNCHANGED << httpVars, builderVars, pricingVars >>

\* a loop that does not look at the pause flag
Submit_ignores_pause ==
    /\ pc = "loop"
    /\ i < Len(chunks)
    /\ pc' = "call"
    /\ submitted' = Append(submitted, i)
    /\ UNCHANGED << fs, state_dir, chunk_dir, now, processorVars, outcome, chunks,
                    state, aliased, model, i, invocations, edits >>
    /\ UNCHANGED << httpVars, builderVars, pricingVars >>

\* chunk i is handed to _call_llm_api
Submit ==
    /\ pc = "loop"
    /\ i < Len(chunks)
    /\ ~pause_requested
    /\ pc' = "call"
    /\ submitted' = Append(submitted, i)
    /\ UNCHANGED << fs, state_dir, chunk_dir, now, processorVars, outcome, chunks,
                    state, aliased, model, i, invocations, edits >>
    /\ UNCHANGED << httpVars, builderVars, pricingVars >>

\* what _call_llm_api returns for a chunk: the demo branch computes it from
\* the chunk, a provider reports the usage
CallResults(chunk) ==
    IF api_client = "demo"
    THEN { [response |-> << "demo", chunk.index >>,
            input_tokens |-> chunk.token_estimate,
            output_tokens |-> DemoOutputTokens,
            cost |-> estimate_cost(model, chunk.token_estimate, DemoOutputTokens).cost] }
    ELSE { [response |-> << api_client, chunk.index >>,
            input_tokens |-> u.input_tokens,
            output_tokens |-> u.output_tokens,
            cost |-> estimate_cost(model, u.input_tokens, u.output_tokens).cost]
           : u \in Usages }

\* a recording that leaves processed_chunks one behind
RecordResult_stale_count(st, idx, result) ==
    [st EXCEPT !.results = Append(@, [chunk_index |-> idx,
                                      response |-> result.response,
                                      input_tokens |-> result.input_tokens,
                                      output_tokens |-> result.output_tokens,
                                      cost |-> result.cost]),
               !.processed_chunks = idx,
               !.total_cost = @ + result.cost]

\* a recording that keeps only the latest result
RecordResult_overwrite(st, idx, result) ==
    [st EXCEPT !.results = << [chunk_index |-> idx,
                               response |-> result.response,
                               input_tokens |-> result.input_tokens,
                               output_tokens |-> result.output_tokens,
                               cost |-> result.cost] >>,
               !.processed_chunks = idx + 1,
               !.total_cost = @ + result.cost]

\* a recording that takes the cost of the call for the total
RecordResult_cost_of_call(st, idx, result) ==
    [st EXCEPT !.results = Append(@, [chunk_index |-> idx,
                                      response |-> result.response,
                                      input_tokens |-> result.input_tokens,
                                      output_tokens |-> result.output_tokens,
                                      cost |-> result.cost]),
               !.processed_chunks = idx + 1,
               !.total_cost = result.cost]

\* a recording that appends the result and leaves the total as it was
RecordResult_total_kept(st, idx, result) ==
    [st EXCEPT !.results = Append(@, [chunk_index |-> idx,
                                      response |-> result.response,
                                      input_tokens |-> result.input_tokens,
                                      output_tokens |-> result.output_tokens,
                                      cost |-> result.cost]),
               !.processed_chunks = idx + 1]

\* the state after the result of chunk idx is recorded (lines 294-304)
RecordResult(st, idx, result) ==
    [st EXCEPT !.results = Append(@, [chunk_index |-> idx,
                                      response |-> result.response,
                                      input_tokens |-> result.input_tokens,
                                      output_tokens |-> result.output_tokens,
                                      cost |-> result.cost]),
               !.processed_chunks = idx + 1,
               !.total_cost = @ + result.cost]

\* _call_llm_api returns: record the result, checkpoint every 10 chunks
CallReturns ==
    /\ pc = "call"
    /\ model \in DOMAIN MODELS
    /\ \E result \in CallResults(chunks[i + 1]) :
          SaveTimes(RecordResult(state[1], i, result),
                    IF (i + 1) % CheckpointEvery = 0 THEN 1 ELSE 0)
    /\ i' = i + 1
    /\ pc' = "loop"
    /\ UNCHANGED << fs, chunk_dir, pause_requested, api_client, outcome, chunks,
                    aliased, model, submitted, invocations, edits >>
    /\ UNCHANGED << httpVars, builderVars, pricingVars >>

\* an engine that skips a failed chunk and goes on
CallRaises_skip ==
    /\ pc = "call"
    /\ api_client # "demo" \/ model \notin DOMAIN MODELS
    /\ SaveTimes(state[1], 1)
    /\ pc' = "loop"
    /\ i' = i + 1
    /\ UNCHANGED << fs, chunk_dir, pause_requested, api_client, outcome, chunks,
                    aliased, model, submitted, invocations, edits >>
    /\ UNCHANGED << httpVars, builderVars, pricingVars >>

\* _call_llm_api raises (provider error, or estimate_cost on an unknown
\* model): save the state and re-raise
CallRaises ==
    /\ pc = "call"
    /\ api_client # "demo" \/ model \notin DOMAIN MODELS
    /\ SaveTimes(state[1], 1)
    /\ pc' = "done"
    /\ outcome' = "raised"
    /\ UNCHANGED << fs, chunk_dir, pause_requested, api_client, chunks, aliased,
                    model, i, submitted, invocations, edits >>
    /\ UNCHANGED << httpVars, builderVars, pricingVars >>

\* the states _process_chunks is about to write when control stands at a
\* save_state call: the pause save (279), the checkpoint (308), the save of
\* the except branch (318), the final save (323)
StatesBeingSaved ==
    IF pc = "loop"
    THEN IF ~(i < Len(chunks)) \/ pause_requested THEN { state[1] } ELSE { }
    ELSE IF pc = "call"
    THEN (IF api_client # "demo" \/ model \notin DOMAIN MODELS
          THEN { state[1] } ELSE { })
         \cup (IF model \in DOMAIN MODELS /\ (i + 1) % CheckpointEvery = 0
               THEN { RecordResult(state[1], i, result) :
                         result \in CallResults(chunks[i + 1]) }
               ELSE { })
    ELSE { }

\* the process is killed (power loss, SIGKILL) while save_state is writing
SaveCrashes ==
    /\ \E st \in StatesBeingSaved :
          state_dir' = save_state_interrupted(state_dir, st, now)
    /\ now' = now + 1
    /\ pc' = "crashed"
    /\ outcome' = "crashed"
    /\ UNCHANGED << fs, chunk_dir, processorVars, frameVars, invocations, edits >>
    /\ UNCHANGED << httpVars, builderVars, pricingVars >>

\* ------------------------------------------------------------------------
\* The environment
\* ------------------------------------------------------------------------
\* IntegratedProcessor.request_pause, from the SIGINT handler or another thread
RequestPause ==
    /\ pause_requested' = TRUE
    /\ UNCHANGED << fs, state_dir, chunk_dir, now, api_client, current_state, pc,
                    outcome, frameVars, invocations, edits >>
    /\ UNCHANGED << httpVars, builderVars, pricingVars >>

\* IntegratedProcessor.__init__ / LargeFileProcessor.__init__: a new process
Construct ==
    /\ pc \in { "done", "crashed" }
    /\ pause_requested' = FALSE
    /\ api_client' = "demo"
    /\ current_state' = None
    /\ pc' = "idle"
    /\ outcome' = "none"
    /\ chunks' = << >>
    /\ state' = None
    /\ aliased' = FALSE
    /\ model' = NoModelArg
    /\ i' = 0
    /\ submitted' = << >>
    /\ UNCHANGED << fs, state_dir, chunk_dir, now, invocations, edits >>
    /\ UNCHANGED << httpVars, builderVars, pricingVars >>

\* a direct call of preprocess_and_chunk with explicit parameters
Preprocess(path, chunk_size, overlap) ==
    /\ pc \in { "idle", "done" }
    /\ ~IsNone(fs[path])
    /\ LET pre == preprocess_and_chunk(chunk_dir, path, fs[path][1], chunk_size, overlap)
       IN  /\ pre.ok
           /\ chunk_dir' = pre.cdir
    /\ UNCHANGED << fs, state_dir, now, processorVars, pc, outcome, frameVars,
                    invocations, edits >>
    /\ UNCHANGED << httpVars, builderVars, pricingVars >>

\* the user replaces, creates or deletes a file between invocations
WriteFile(path, content) ==
    /\ pc \in { "idle", "done" }
    /\ edits < MaxEdits
    /\ fs[path] # content
    /\ fs' = [fs EXCEPT ![path] = content]
    /\ edits' = edits + 1
    /\ UNCHANGED << state_dir, chunk_dir, now, processorVars, pc, outcome,
                    frameVars, invocations >>
    /\ UNCHANGED << httpVars, builderVars, pricingVars >>

\* ------------------------------------------------------------------------
\* app.py: the job registry, the worker thread of a job and the HTTP
\* handlers.  One action per statement that reads or writes jobs[job_id].
\* ------------------------------------------------------------------------
MaxJobs == 2

JobIds == 1..MaxJobs

ALLOWED_EXTENSIONS == { "txt", "pdf", "docx", "pptx", "xlsx" }

\* the file names a client uploads, with what rsplit('.', 1) and lower()
\* make of them
UploadNames == { "", "notes", "setup.exe", "report.PDF", "data.txt" }

HasDot(filename) == filename \in { "setup.exe", "report.PDF", "data.txt" }

LowerSuffix(filename) ==
    CASE filename = "setup.exe"  -> "exe"
      [] filename = "report.PDF" -> "pdf"
      [] filename = "data.txt"   -> "txt"
      [] OTHER -> ""

allowed_file(filename) ==
    HasDot(filename) /\ LowerSuffix(filename) \in ALLOWED_EXTENSIONS

\* the messages of app.py, in English
MsgQueued == "waiting"
MsgPreprocessing == "preprocessing the file"
MsgChunking == "creating chunks"
MsgFailed == "error: unexpected keyword argument 'chunk_overlap'"
ErrUnexpectedKeyword == "unexpected keyword argument 'chunk_overlap'"

NoResponse == [route |-> "none", code |-> 0, body |-> << >>]

Reply(route, code, body) == [route |-> route, code |-> code, body |-> body]

\* dict.get(key, default) on an Optional field
GetOr(field, default) == IF IsNone(field) THEN default ELSE field[1]

\* the dict upload_file stores; the keys set later by the worker are None
NewJob(job_id, filename) ==
    [job_id |-> job_id, file_name |-> filename, status |-> "queued",
     message |-> MsgQueued, progress |-> 0, total_chunks |-> None,
     processed_chunks |-> None, estimated_cost |-> None, result_file |-> None,
     error |-> None]

\* an upload that does not ask for the API key
upload_file_without_key(js, locks, has_file, filename, api_key, job_id) ==
    IF ~has_file \/ filename = "" \/ ~allowed_file(filename)
    THEN [code |-> 400, error |-> "no usable file", jobs |-> js,
          job_locks |-> locks, started |-> FALSE]
    ELSE [code |-> 200, error |-> "",
          jobs |-> [js EXCEPT ![job_id] = Some(NewJob(job_id, filename))],
          job_locks |-> [locks EXCEPT ![job_id] = Some("unlocked")],
          started |-> TRUE]

\* upload_file as a function of the request: the response, the registry
\* after it, and whether a worker thread was started
upload_file(js, locks, has_file, filename, api_key, job_id) ==
    IF ~has_file
    THEN [code |-> 400, error |-> "no file", jobs |-> js, job_locks |-> locks,
          started |-> FALSE]
    ELSE IF filename = ""
    THEN [code |-> 400, error |-> "no file selected", jobs |-> js,
          job_locks |-> locks, started |-> FALSE]
    ELSE IF ~allowed_file(filename)
    THEN [code |-> 400, error |-> "unsupported file type", jobs |-> js,
          job_locks |-> locks, started |-> FALSE]
    ELSE IF api_key = ""
    THEN [code |-> 400, error |-> "API key required", jobs |-> js,
          job_locks |-> locks, started |-> FALSE]
    ELSE [code |-> 200, error |-> "",
          jobs |-> [js EXCEPT ![job_id] = Some(NewJob(job_id, filename))],
          job_locks |-> [locks EXCEPT ![job_id] = Some("unlocked")],
          started |-> TRUE]

\* POST /upload; uuid4 yields an identifier no job has
Upload(has_file, filename, api_key, job_id) ==
    /\ IsNone(jobs[job_id])
    /\ LET r == upload_file(jobs, job_locks, has_file, filename, api_key, job_id)
       IN  /\ jobs' = r.jobs
           /\ job_locks' = r.job_locks
           /\ worker' = IF r.started THEN [worker EXCEPT ![job_id] = "line 33"]
                         ELSE worker
           /\ response' = Reply("upload", r.code,
                                IF r.started THEN << job_id >> ELSE << r.error >>)
    /\ UNCHANGED << engineVars, builderVars, pricingVars >>

\* one assignment jobs[job_id][key] = value of the worker, which then
\* stands at `next`
WorkerSets(job_id, at, key, value, next) ==
    /\ worker[job_id] = at
    /\ jobs' = [jobs EXCEPT ![job_id] = Some([jobs[job_id][1] EXCEPT ![key] = value])]
    /\ worker' = [worker EXCEPT ![job_id] = next]
    /\ UNCHANGED << job_locks, response >>
    /\ UNCHANGED << engineVars, builderVars, pricingVars >>

\* process_file_async, lines 33-41 and 111-114.  preprocess_and_chunk is
\* called with the keywords chunk_overlap and optimize_images, which
\* IntegratedProcessor.preprocess_and_chunk(file_path, chunk_size, overlap)
\* does not take: the call raises TypeError and control goes to the except
\* branch, so lines 48-109 are never executed.
WorkerStatusPreprocessing(job_id) ==
    WorkerSets(job_id, "line 33", "status", "preprocessing", "line 34")

WorkerMessagePreprocessing(job_id) ==
    WorkerSets(job_id, "line 34", "message", MsgPreprocessing, "line 40")

WorkerMessageChunking(job_id) ==
    WorkerSets(job_id, "line 40", "message", MsgChunking, "line 41")

WorkerCallRaises(job_id) ==
    WorkerSets(job_id, "line 41", "status", "failed", "line 113")

WorkerMessageFailed(job_id) ==
    WorkerSets(job_id, "line 113", "message", MsgFailed, "line 114")

WorkerError(job_id) ==
    WorkerSets(job_id, "line 114", "error", Some(ErrUnexpectedKeyword), "ended")

\* GET /status/<job_id>
GetStatus(job_id) ==
    /\ response' =
          IF IsNone(jobs[job_id])
          THEN Reply("status", 404, << >>)
          ELSE LET job == jobs[job_id][1]
               IN  Reply("status", 200,
                         << [job_id |-> job_id, file_name |-> job.file_name,
                             status |-> job.status, message |-> job.message,
                             progress |-> job.progress,
                             total_chunks |-> GetOr(job.total_chunks, 0),
                             processed_chunks |-> GetOr(job.processed_chunks, 0),
                             estimated_cost |-> job.estimated_cost] >>)
    /\ UNCHANGED << jobs, job_locks, worker >>
    /\ UNCHANGED << engineVars, builderVars, pricingVars >>

\* GET /download/<job_id>
DownloadResult(job_id) ==
    /\ response' =
          IF IsNone(jobs[job_id])
          THEN Reply("download", 404, << >>)
          ELSE IF jobs[job_id][1].status # "completed"
          THEN Reply("download", 400, << >>)
          ELSE IF IsNone(jobs[job_id][1].result_file)
          THEN Reply("download", 404, << >>)
          ELSE Reply("download", 200, jobs[job_id][1].result_file)
    /\ UNCHANGED << jobs, job_locks, worker >>
    /\ UNCHANGED << engineVars, builderVars, pricingVars >>

\* POST /cancel/<job_id>
CancelJob(job_id) ==
    /\ IF IsNone(jobs[job_id])
       THEN /\ response' = Reply("cancel", 404, << >>)
            /\ UNCHANGED jobs
       ELSE /\ jobs' = [jobs EXCEPT ![job_id] =
                            Some([jobs[job_id][1] EXCEPT !.status = "cancelled"])]
            /\ response' = Reply("cancel", 200, << >>)
    /\ UNCHANGED << job_locks, worker >>
    /\ UNCHANGED << engineVars, builderVars, pricingVars >>

\* GET /jobs
ListJobs ==
    /\ response' =
          Reply("jobs", 200,
                { [job_id |-> j, file_name |-> jobs[j][1].file_name,
                   status |-> jobs[j][1].status,
                   progress |-> jobs[j][1].progress] :
                  j \in { k \in JobIds : ~IsNone(jobs[k]) } })
    /\ UNCHANGED << jobs, job_locks, worker >>
    /\ UNCHANGED << engineVars, builderVars, pricingVars >>

NoFiles == [p \in Paths |-> None]

NoEntries == [h \in Hashes |-> None]

\* the state after construction, over a given file system
EngineInit(files) ==
    /\ fs = files
    /\ state_dir = NoEntries
    /\ chunk_dir = NoEntries
    /\ now = 0
    /\ pause_requested = FALSE
    /\ api_client = "demo"
    /\ current_state = None
    /\ pc = "idle"
    /\ outcome = "none"
    /\ chunks = << >>
    /\ state = None
    /\ aliased = FALSE
    /\ model = NoModelArg
    /\ i = 0
    /\ submitted = << >>
    /\ invocations = 0
    /\ edits = 0

\* app.py at import: jobs = {} and job_locks = {}, no request served yet
HttpInit ==
    /\ jobs = [j \in JobIds |-> None]
    /\ job_locks = [j \in JobIds |-> None]
    /\ worker = [j \in JobIds |-> "none"]
    /\ response = NoResponse

\* create_chunks not called: its locals as they are before the loop
PlainIdle == [pc |-> "idle", locals |-> PlainChunkLocals]

\* no call of _create_smart_chunks or create_chunks in progress
BuilderIdle ==
    /\ builder_input = [contents |-> << >>, chunk_size |-> DefaultChunkSize,
                        overlap |-> DefaultOverlap]
    /\ builder_chunks = None
    /\ plain_frame = PlainIdle

\* estimate_cost and compare_models not called
NoPricingResult == [cost |-> None, comparison |-> None]

PricingIdle ==
    /\ pricing_call = [model |-> "", input_tokens |-> 0, output_tokens |-> 0]
    /\ pricing_result = NoPricingResult

InitOver(files) ==
    /\ EngineInit(files)
    /\ HttpInit
    /\ BuilderIdle
    /\ PricingIdle

\* the steps of the program, with the inputs of its entry points drawn from
\* the given sets
NextOver(paths, clients, model_args, answers, confirms, model_opts, params, contents) ==
    \/ \E path \in paths, client \in clients, model_arg \in model_args,
          answer \in answers, confirm \in confirms :
          Process(path, client, model_arg, answer, confirm)
    \/ \E path \in paths, client \in clients, model_opt \in model_opts :
          Resume(path, client, model_opt)
    \/ Finish
    \/ PauseStop
    \/ Submit
    \/ CallReturns
    \/ CallRaises
    \/ RequestPause
    \/ Construct
    \/ \E path \in paths, p \in params : Preprocess(path, p[1], p[2])
    \/ \E path \in paths, content \in contents : WriteFile(path, content)

\* ------------------------------------------------------------------------
\* Spec: the engine on a multi-chunk document.  One PDF whose chunk cache
\* may have been written with a small chunk size (a chunk per text unit), the demo
\* client or a provider, one known model.
\* ------------------------------------------------------------------------
Init == InitOver([NoFiles EXCEPT !["c.pdf"] = Some(PdfBytes)])

Next ==
    NextOver({ "c.pdf" }, { "demo", "anthropic" }, { "claude-haiku-4" }, { "y", "n" },
             { "auto", "n" }, { NoModelArg },
             { << 1, 0 >>, << DefaultChunkSize, DefaultOverlap >> },
             { Some(BinaryBytes), Some(PdfBytes) })

Spec == Init /\ [][Next]_vars

\* ------------------------------------------------------------------------
\* SpecStore: the state store on small text files, with every kind of
\* input: two clients, known and unknown models, both answers at each
\* prompt, files replaced, emptied and deleted between invocations.
\* ------------------------------------------------------------------------
InitStore ==
    InitOver([NoFiles EXCEPT !["a.txt"] = Some(ShortBytes),
                             !["b.txt"] = Some(EmptyBytes)])

NextStore ==
    NextOver({ "a.txt", "b.txt" }, { "demo", "anthropic" },
             { "claude-haiku-4", "no-such-model" }, { "y", "n" },
             { "auto", "y", "n", "gpt-4o-mini" },
             { NoModelArg, "gpt-4o-mini", "no-such-model" },
             { << 1, 0 >>, << DefaultChunkSize, DefaultOverlap >> },
             { None, Some(EmptyBytes), Some(ShortBytes), Some(BinaryBytes) })

SpecStore == InitStore /\ [][NextStore]_vars

\* ------------------------------------------------------------------------
\* SpecCrash: the engine of Spec in a world where the process can be killed
\* while it writes a state file.
\* ------------------------------------------------------------------------
NextCrash ==
    \/ Next
    \/ SaveCrashes

SpecCrash == Init /\ [][NextCrash]_vars

\* ------------------------------------------------------------------------
\* SpecRun: Spec with the scheduling of a running interpreter: the loop of
\* _process_chunks goes on to its next statement, and a call of the LLM
\* client that can return does return unless it raises.
\* ------------------------------------------------------------------------
SpecRun ==
    /\ Init
    /\ [][Next]_vars
    /\ WF_vars(Submit)
    /\ WF_vars(CallReturns)
    /\ WF_vars(Finish)
    /\ WF_vars(PauseStop)

\* ------------------------------------------------------------------------
\* SpecJobs: the web front end.  Clients upload files with and without an
\* API key, and poll, cancel, download and list jobs while the worker
\* threads run.
\* ------------------------------------------------------------------------
InitJobs == InitOver(NoFiles)

NextJobs ==
    \/ \E has_file \in BOOLEAN, filename \in UploadNames,
          api_key \in { "", "sk-key" }, job_id \in JobIds :
          Upload(has_file, filename, api_key, job_id)
    \/ \E job_id \in JobIds : WorkerStatusPreprocessing(job_id)
    \/ \E job_id \in JobIds : WorkerMessagePreprocessing(job_id)
    \/ \E job_id \in JobIds : WorkerMessageChunking(job_id)
    \/ \E job_id \in JobIds : WorkerCallRaises(job_id)
    \/ \E job_id \in JobIds : WorkerMessageFailed(job_id)
    \/ \E job_id \in JobIds : WorkerError(job_id)
    \/ \E job_id \in JobIds : GetStatus(job_id)
    \/ \E job_id \in JobIds : DownloadResult(job_id)
    \/ \E job_id \in JobIds : CancelJob(job_id)
    \/ ListJobs

SpecJobs == InitJobs /\ [][NextJobs]_vars

\* the thread of a job runs on: each of its statements is executed in the end
WorkerRuns(job_id) ==
    /\ WF_vars(WorkerStatusPreprocessing(job_id))
    /\ WF_vars(WorkerMessagePreprocessing(job_id))
    /\ WF_vars(WorkerMessageChunking(job_id))
    /\ WF_vars(WorkerCallRaises(job_id))
    /\ WF_vars(WorkerMessageFailed(job_id))
    /\ WF_vars(WorkerError(job_id))

\* SpecJobsRun: SpecJobs with the scheduling of the worker threads
SpecJobsRun == SpecJobs /\ \A job_id \in JobIds : WorkerRuns(job_id)

\* ------------------------------------------------------------------------
\* SpecBuilder: the two chunk builders as functions.  The initial states are
\* the calls: every document of at most MaxUnits content units, each a text
\* of 1, 2 or 5 characters or an image, under chunk sizes larger than, equal
\* to and smaller than the overlap.  _create_smart_chunks returns in one
\* step; create_chunks runs on the documents that are one text (a text
\* file), an iteration of its loop per step.
\* ------------------------------------------------------------------------
MaxUnits == 4

\* iterations of create_chunks followed; a call that ends needs at most five
MaxPlainChunks == 6

UnitTexts == { << 97 >>, << 98, 99 >>, << 100, 101, 102, 103, 104 >> }

\* the content units a document is made of: (content_type, data)
Units == { << "text", t >> : t \in UnitTexts } \cup { << "image", << 105 >> >> }

\* (chunk_size, overlap)
BuilderParams ==
    { << 3, 0 >>, << 3, 1 >>, << 3, 2 >>, << 6, 5 >>, << 5, 1 >>, << 2, 2 >>, << 2, 3 >> }

\* the list of ExtractedContent of a document, positions in source order
DocumentContents(units) ==
    [k \in 1..Len(units) |-> ExtractedContent(k - 1, units[k][1], units[k][2])]

\* a text file: _extract_from_text gives one text unit, the file's content
IsTextFile(contents) == Len(contents) = 1 /\ contents[1].content_type = "text"

InitBuilder ==
    /\ EngineInit(NoFiles)
    /\ HttpInit
    /\ PricingIdle
    /\ builder_chunks = None
    /\ plain_frame = PlainIdle
    /\ \E n \in 0..MaxUnits :
          \E units \in [1..n -> Units], p \in BuilderParams :
             builder_input = [contents |-> DocumentContents(units),
                              chunk_size |-> p[1], overlap |-> p[2]]

\* the call of _create_smart_chunks returns
CreateSmartChunks ==
    /\ IsNone(builder_chunks)
    /\ builder_chunks' = Some(create_smart_chunks(builder_input.contents,
                                                  builder_input.chunk_size,
                                                  builder_input.overlap))
    /\ UNCHANGED << builder_input, plain_frame, engineVars, httpVars, pricingVars >>

\* create_chunks is called on the text file and reaches its loop
CreateChunksCall ==
    /\ plain_frame.pc = "idle"
    /\ IsTextFile(builder_input.contents)
    /\ plain_frame' = [plain_frame EXCEPT !.pc = "loop"]
    /\ UNCHANGED << builder_input, builder_chunks, engineVars, httpVars, pricingVars >>

\* one iteration of the while loop
CreateChunksIteration ==
    /\ plain_frame.pc = "loop"
    /\ PlainChunkMore(builder_input.contents[1].data, plain_frame.locals)
    /\ Len(plain_frame.locals.chunks) < MaxPlainChunks
    /\ plain_frame' = [plain_frame EXCEPT
                         !.locals = PlainChunkStep(builder_input.contents[1].data,
                                                   builder_input.chunk_size,
                                                   builder_input.overlap, @)]
    /\ UNCHANGED << builder_input, builder_chunks, engineVars, httpVars, pricingVars >>

\* the loop condition fails: return chunks
CreateChunksReturn ==
    /\ plain_frame.pc = "loop"
    /\ ~PlainChunkMore(builder_input.contents[1].data, plain_frame.locals)
    /\ plain_frame' = [plain_frame EXCEPT !.pc = "returned"]
    /\ UNCHANGED << builder_input, builder_chunks, engineVars, httpVars, pricingVars >>

NextBuilder ==
    \/ CreateSmartChunks
    \/ CreateChunksCall
    \/ CreateChunksIteration
    \/ CreateChunksReturn

SpecBuilder == InitBuilder /\ [][NextBuilder]_vars

\* the call of create_chunks is one thread running its loop: an iteration
\* or the return that can be taken is taken
SpecBuilderRun ==
    /\ SpecBuilder
    /\ WF_vars(CreateChunksIteration)
    /\ WF_vars(CreateChunksReturn)

\* ------------------------------------------------------------------------
\* SpecPricing: ModelPricing as functions.  The initial states are the
\* calls: every model of the table and two identifiers that are not in it,
\* with token counts from zero to a million.
\* ------------------------------------------------------------------------
PricingModels == DOMAIN MODELS \cup { "no-such-model", "" }

PricingTokens == { 0, 1, 500, 100000, 1000000 }

InitPricing ==
    /\ EngineInit(NoFiles)
    /\ HttpInit
    /\ BuilderIdle
    /\ pricing_result = NoPricingResult
    /\ \E m \in PricingModels, input_tokens \in PricingTokens,
          output_tokens \in PricingTokens :
          pricing_call = [model |-> m, input_tokens |-> input_tokens,
                          output_tokens |-> output_tokens]

\* the call of ModelPricing.estimate_cost returns or raises
EstimateCost ==
    /\ IsNone(pricing_result.cost)
    /\ pricing_result' = [pricing_result EXCEPT
                            !.cost = Some(estimate_cost(pricing_call.model,
                                                        pricing_call.input_tokens,
                                                        pricing_call.output_tokens))]
    /\ UNCHANGED << pricing_call, engineVars, httpVars, builderVars >>

\* the call of ModelPricing.compare_models returns
CompareModels ==
    /\ IsNone(pricing_result.comparison)
    /\ pricing_result' = [pricing_result EXCEPT
                            !.comparison = Some(compare_models(pricing_call.input_tokens,
                                                               pricing_call.output_tokens))]
    /\ UNCHANGED << pricing_call, engineVars, httpVars, builderVars >>

NextPricing ==
    \/ EstimateCost
    \/ CompareModels

SpecPricing == InitPricing /\ [][NextPricing]_vars

\* ------------------------------------------------------------------------
\* Properties
\* ------------------------------------------------------------------------
IsPrefix(s, t) == Len(s) <= Len(t) /\ SubSeq(t, 1, Len(s)) = s

\* the durable copy filed under the hash of a state
Durable(st) == state_dir[st.file_hash]

SameProgress(d, st) ==
    /\ d.processed_chunks = st.processed_chunks
    /\ d.results = st.results
    /\ d.total_cost = st.total_cost

ResultsMatchCount(st) ==
    /\ Len(st.results) = st.processed_chunks
    /\ \A k \in 1..Len(st.results) : st.results[k].chunk_index = k - 1

\* the indices start, start+1, ..., each submitted once
Consecutive(s) == \A k \in 1..Len(s) : s[k] = s[1] + k - 1

\* C1: at every chunk boundary the state in memory, and at all times every
\* saved state, has as many results as processed_chunks says, and the k-th
\* result (from 0) is the one of chunk k.
C1_ResultsMatchProcessed ==
    /\ (pc \in { "loop", "done" } /\ ~IsNone(state)) => ResultsMatchCount(state[1])
    /\ \A h \in Hashes : ~IsNone(state_dir[h]) => ResultsMatchCount(state_dir[h][1])

\* a state resumed after an interruption and run to the end of more than
\* 10 chunks
C1_Witness ==
    /\ pc = "done" /\ outcome = "completed" /\ ~aliased
    /\ Len(submitted) > 0 /\ submitted[1] > 0
    /\ Len(chunks) > CheckpointEvery
    /\ Len(state[1].results) = Len(chunks)
    /\ ~IsNone(Durable(state[1]))
    /\ Len(Durable(state[1])[1].results) = Len(chunks)

\* C2 (as claimed): 0 <= processed_chunks <= total_chunks in every state in
\* memory and every saved state.
C2_ProcessedWithinTotal ==
    /\ ~IsNone(state) =>
          (0 <= state[1].processed_chunks
             /\ state[1].processed_chunks <= state[1].total_chunks)
    /\ \A h \in Hashes : ~IsNone(state_dir[h]) =>
          (0 <= state_dir[h][1].processed_chunks
             /\ state_dir[h][1].processed_chunks <= state_dir[h][1].total_chunks)

\* C3: a resumed run starts from exactly the saved results, and every step
\* of a run only appends to the results: the entries present before the
\* step are the first entries after it.
C3_ResumeKeepsRecordedResults ==
    [][ /\ (pc \in { "idle", "done" } /\ pc' = "loop" /\ ~aliased')
           => (/\ ~IsNone(state_dir[state'[1].file_hash])
               /\ state'[1].results = state_dir[state'[1].file_hash][1].results)
        /\ (pc \in { "loop", "call" })
           => (/\ ~IsNone(state')
               /\ IsPrefix(state[1].results, state'[1].results)
               /\ ~IsNone(state_dir'[state[1].file_hash])
               /\ IsPrefix(state_dir[state[1].file_hash][1].results,
                           state_dir'[state[1].file_hash][1].results)) ]_vars

\* a resumed run that has added results to the ones it found
C3_Witness ==
    /\ pc = "done" /\ outcome = "completed" /\ ~aliased
    /\ Len(submitted) > 0 /\ submitted[1] = 5
    /\ Len(state[1].results) = Len(chunks)

\* C4: a run is always at index processed_chunks; the chunk in flight has
\* no result in the state, and within a run the submitted indices increase
\* one by one.
C4_NoResubmission ==
    /\ pc \in { "loop", "call" } => i = state[1].processed_chunks
    /\ pc = "call" =>
          (/\ submitted[Len(submitted)] = i
           /\ \A k \in 1..Len(state[1].results) : state[1].results[k].chunk_index # i)
    /\ Consecutive(submitted)
    /\ (pc \in { "loop", "call" } /\ Len(submitted) > 0) =>
          submitted[1] + Len(submitted) = i + (IF pc = "call" THEN 1 ELSE 0)

\* a chunk in flight in a run that found 4 chunks already recorded
C4_Witness ==
    /\ pc = "call" /\ submitted = << 4 >>
    /\ Len(state[1].results) = 4

\* C5: a run that stops on the pause flag has submitted nothing after the k
\* chunks it completed, and memory and disk both hold exactly k results; a
\* resume in a new process starts at the saved processed_chunks; a run that
\* reaches the end has submitted exactly the indices from its start to n-1
\* and ends with processed_chunks = n.
C5_PauseThenResume ==
    /\ [](/\ (pc = "done" /\ outcome = "paused") =>
                (/\ state[1].processed_chunks = i
                 /\ i < Len(chunks)
                 /\ Len(state[1].results) = i
                 /\ (Len(submitted) > 0 => submitted[Len(submitted)] = i - 1)
                 /\ ~IsNone(Durable(state[1]))
                 /\ SameProgress(Durable(state[1])[1], state[1]))
          /\ (pc = "done" /\ outcome = "completed") =>
                (/\ state[1].processed_chunks = Len(chunks)
                 /\ Consecutive(submitted)
                 /\ (Len(submitted) > 0 =>
                        submitted[Len(submitted)] = Len(chunks) - 1)))
    /\ [][ (pc = "idle" /\ pc' = "loop" /\ ~aliased')
           => (/\ i' = state_dir[state'[1].file_hash][1].processed_chunks
               /\ SameProgress(state_dir[state'[1].file_hash][1], state'[1])) ]_vars

\* a run stopped by the pause flag after 3 chunks of a longer list
C5_Witness ==
    /\ pc = "done" /\ outcome = "paused"
    /\ state[1].processed_chunks = 3 /\ Len(chunks) > 3
    /\ submitted = << 0, 1, 2 >>

\* C6: a pause request during a call leaves the call in flight; when the
\* call returns its result is recorded and processed_chunks becomes i+1;
\* once the flag is set no further chunk is submitted.
C6_PauseDoesNotCancel ==
    [][ /\ (pc = "call" /\ ~pause_requested /\ pause_requested')
           => (pc' = "call" /\ UNCHANGED << state, state_dir, i, submitted >>)
        /\ (pc = "call" /\ pause_requested /\ pc' = "loop")
           => (/\ state'[1].processed_chunks = i + 1
               /\ Len(state'[1].results) = Len(state[1].results) + 1
               /\ state'[1].results[Len(state'[1].results)].chunk_index = i)
        /\ (pc = "loop" /\ pause_requested) => pc' # "call" ]_vars

\* the pause flag is raised while chunk 2 is in flight
C6_Witness ==
    /\ pc = "call" /\ pause_requested /\ i = 2

\* C7: when the call for chunk i raises, the run ends as raised with the
\* state as it was before the call, that state is what is on disk, and the
\* failed chunk is the last one submitted.
C7_FailureKeepsState ==
    /\ [][ (pc = "call" /\ pc' # "call" /\ Len(state'[1].results) = Len(state[1].results))
           => (/\ pc' = "done" /\ outcome' = "raised"
               /\ SameProgress(state[1], state'[1])
               /\ state'[1].processed_chunks = i
               /\ submitted' = submitted) ]_vars
    /\ []((pc = "done" /\ outcome = "raised" /\ ~IsNone(state)) =>
             (/\ state[1].processed_chunks = i
              /\ Len(state[1].results) = i
              /\ submitted[Len(submitted)] = i
              /\ ~IsNone(Durable(state[1]))
              /\ SameProgress(Durable(state[1])[1], state[1])))

\* the call for chunk 6 has raised
C7_Witness ==
    /\ pc = "done" /\ outcome = "raised" /\ ~IsNone(state)
    /\ i = 6 /\ Len(state[1].results) = 6

\* C8: the state is on disk right after every chunk i with (i+1) % 10 = 0,
\* and whenever _process_chunks has returned or raised.
C8_CheckpointAndFinalSave ==
    /\ [][ (pc = "call" /\ pc' = "loop" /\ (i + 1) % CheckpointEvery = 0)
           => (/\ ~IsNone(state_dir'[state'[1].file_hash])
               /\ SameProgress(state_dir'[state'[1].file_hash][1], state'[1])) ]_vars
    /\ []((pc = "done" /\ outcome \in { "completed", "paused", "raised" }
                       /\ ~IsNone(state)) =>
             (/\ ~IsNone(Durable(state[1]))
              /\ SameProgress(Durable(state[1])[1], state[1])))

\* the tenth chunk has just been recorded and checkpointed
C8_Witness ==
    /\ pc = "loop" /\ i = 10
    /\ ~IsNone(Durable(state[1]))
    /\ Durable(state[1])[1].processed_chunks = 10

\* the steps in which process_file initialized over a saved state
InitializedOverSaved ==
    /\ pc \in { "idle", "done" } /\ invocations' = invocations + 1
    /\ aliased'
    /\ ~IsNone(state_dir[state'[1].file_hash])

\* C9 (as claimed): whenever a saved state exists for the content,
\* initialize returns it and leaves the saved copy's progress as it was.
C9_InitializeReturnsSaved ==
    [][ InitializedOverSaved
        => (/\ SameProgress(state_dir[state'[1].file_hash][1], state'[1])
            /\ SameProgress(state_dir[state'[1].file_hash][1],
                            state_dir'[state'[1].file_hash][1])) ]_vars

\* C9 (amended): with a saved state for the content and the answer "y",
\* initialize returns the saved state and writes nothing; in every other
\* case it returns and saves a state with no progress, replacing a saved
\* one.
C9_InitializeByAnswer ==
    \A path \in Paths, answer \in { "y", "n" } :
        (~IsNone(fs[path]) /\ Utf8Decodes(fs[path][1])) =>
            LET bytes == fs[path][1]
                saved == state_dir[calculate_file_hash(bytes)]
                r     == initialize_processing(state_dir, path, bytes,
                                               "claude-haiku-4", answer, now)
            IN  IF ~IsNone(saved) /\ answer = "y"
                THEN r.ok /\ r.state = Some(from_dict(saved[1])) /\ r.dir = state_dir
                ELSE /\ r.ok
                     /\ r.state[1].processed_chunks = 0
                     /\ r.state[1].results = << >>
                     /\ r.state[1].total_cost = 0
                     /\ r.dir[calculate_file_hash(bytes)] = Some(to_dict(r.state[1]))
                     /\ \A h \in Hashes \ { calculate_file_hash(bytes) } :
                           r.dir[h] = state_dir[h]

\* process_file has taken up a saved state with 2 results
C9_Witness ==
    /\ pc = "loop" /\ aliased /\ submitted = << >>
    /\ Len(state[1].results) = 2
    /\ ~IsNone(Durable(state[1]))
    /\ SameProgress(Durable(state[1])[1], state[1])

\* C10: the state found for a path is the one made from the bytes now in
\* that file, whatever path it was made under; modifying a file writes no
\* state; initializing a state writes only the entry of its own content.
C10_IdentityIsContent ==
    /\ [](\A path \in Paths :
             (~IsNone(fs[path]) /\ ~IsNone(load_state(state_dir, fs[path][1]))) =>
                LET st == load_state(state_dir, fs[path][1])[1]
                IN  /\ st.file_hash = calculate_file_hash(fs[path][1])
                    /\ Utf8Decodes(fs[path][1])
                    /\ st.total_chunks =
                          Len(create_chunks(fs[path][1], PlainChunkSize, PlainOverlap)))
    /\ [][ /\ fs' # fs => state_dir' = state_dir
           /\ (pc \in { "idle", "done" } /\ invocations' = invocations + 1 /\ aliased')
              => \A h \in Hashes \ { state'[1].file_hash } :
                    state_dir'[h] = state_dir[h] ]_vars

\* two paths hold the same bytes and find the state made under the other
\* path; the state of the bytes that were there before is still on disk
C10_Witness ==
    /\ ~IsNone(fs["a.txt"]) /\ fs["a.txt"] = fs["b.txt"]
    /\ ~IsNone(load_state(state_dir, fs["b.txt"][1]))
    /\ load_state(state_dir, fs["b.txt"][1])[1].file_path = "a.txt"
    /\ ~IsNone(state_dir[calculate_file_hash(EmptyBytes)])
    /\ fs["b.txt"][1] # EmptyBytes

\* C11: save(state) is crash-safe: whenever the process dies during a save,
\* the durable file of that content hash still decodes to a complete state
\* (the previous one or the new one), never to an empty or partial record.
C11_SaveIsCrashSafe ==
    \A h \in Hashes : ~IsNone(state_dir[h]) => ~IsTruncated(state_dir[h])

\* C12: load on a missing state file returns absent and load on a state file
\* that does not decode raises; load never returns a zeroed or partial state
\* (what it returns is the saved state, field for field); process_file and
\* resume end with the error on such a file, no run ever works on it and no
\* step overwrites it.
C12_LoadOutcome ==
    \A p \in Paths :
        ~IsNone(fs[p]) =>
            LET bytes == fs[p][1]
                file  == state_dir[calculate_file_hash(bytes)]
            IN  /\ IsNone(file) =>
                      /\ ~load_state_raises(state_dir, bytes)
                      /\ load_state(state_dir, bytes) = None
                /\ (~IsNone(file) /\ ~IsTruncated(file)) =>
                      /\ ~load_state_raises(state_dir, bytes)
                      /\ load_state(state_dir, bytes) = Some(from_dict(file[1]))
                      /\ to_dict(load_state(state_dir, bytes)[1]) = file[1]
                /\ IsTruncated(file) =>
                      /\ load_state_raises(state_dir, bytes)
                      /\ resume(p, NoModelArg).kind = "raised"
                      /\ resume(p, NoModelArg).state_dir = state_dir
                      /\ \A answer \in { "y", "n" } :
                            LET r == process_file(p, "claude-haiku-4", answer, "auto")
                            IN  r.kind = "raised" /\ r.state_dir = state_dir

C12_NoRunOnCorruptState ==
    pc \in { "loop", "call" } => ~IsTruncated(state_dir[state[1].file_hash])

C12_CorruptStateKept ==
    \A h \in Hashes : IsTruncated(state_dir[h]) => state_dir'[h] = state_dir[h]

C12_LoadMissingOrCorrupt ==
    /\ [](C12_LoadOutcome /\ C12_NoRunOnCorruptState)
    /\ [][C12_CorruptStateKept]_vars

\* an invocation on a file whose state file was truncated by a crash has
\* ended with the error
C12_Witness ==
    /\ pc = "done"
    /\ outcome = "raised"
    /\ invocations = 2
    /\ fs["c.pdf"] = Some(PdfBytes)
    /\ IsTruncated(state_dir[calculate_file_hash(PdfBytes)])

\* C13: changeModel(newModel) sets currentModel to newModel on the state the
\* processor holds, in memory and in the durable copy within the same call,
\* and leaves processedChunks, totalCost and every result entry (each
\* recorded cost included) unchanged; without a state it raises and writes
\* nothing.
C13_ChangeModelCall ==
    \A new_model \in { "claude-haiku-4", "gpt-4o-mini", "claude-opus-4" } :
        LET r == change_model(state_dir, current_state, new_model, now)
        IN  IF IsNone(current_state)
            THEN ~r.ok /\ r.dir = state_dir
            ELSE LET cur == current_state[1]
                 IN  /\ r.ok
                     /\ r.state[1].current_model = new_model
                     /\ r.dir[cur.file_hash] = Some(to_dict(r.state[1]))
                     /\ r.dir[cur.file_hash][1].current_model = new_model
                     /\ r.state[1].processed_chunks = cur.processed_chunks
                     /\ r.state[1].total_cost = cur.total_cost
                     /\ r.state[1].results = cur.results
                     /\ \A h \in Hashes \ { cur.file_hash } : r.dir[h] = state_dir[h]

\* the same on the step of process_file that resumes a saved state with
\* recorded results under another model
C13_ChangeModelStep ==
    (/\ pc \in { "idle", "done" }
     /\ pc' = "loop"
     /\ aliased'
     /\ ~IsNone(state_dir[state'[1].file_hash])
     /\ state_dir[state'[1].file_hash][1].results # << >>
     /\ state'[1].results = state_dir[state'[1].file_hash][1].results
     /\ state'[1].current_model # state_dir[state'[1].file_hash][1].current_model)
    => LET before == state_dir[state'[1].file_hash][1]
           after  == state_dir'[state'[1].file_hash][1]
       IN  /\ model' = state'[1].current_model
           /\ current_state' = state'
           /\ after = to_dict(state'[1])
           /\ after.processed_chunks = before.processed_chunks
           /\ after.total_cost = before.total_cost
           /\ after.results = before.results

C13_ChangeModelFrame ==
    /\ []C13_ChangeModelCall
    /\ [][C13_ChangeModelStep]_vars

\* a run resumed over recorded results after the model was changed at the
\* cost prompt
C13_Witness ==
    /\ pc = "loop"
    /\ aliased
    /\ model = "gpt-4o-mini"
    /\ state[1].current_model = "gpt-4o-mini"
    /\ state[1].results # << >>
    /\ state[1].results[1].cost > 0
    /\ state_dir[state[1].file_hash][1].current_model = "gpt-4o-mini"

\* C14: CLI resume on a file with a saved state and a --model different from
\* the state's currentModel changes the state's currentModel to the new
\* model, persists it, and hands the remaining chunks processedChunks..n-1
\* to the engine under the new model.
C14_ResumeWithNewModel ==
    \A p \in Paths, m \in { "claude-haiku-4", "gpt-4o-mini" } :
        (/\ pc \in { "idle", "done" }
         /\ ~IsNone(fs[p])
         /\ ~load_state_raises(state_dir, fs[p][1])
         /\ ~IsNone(load_state(state_dir, fs[p][1]))
         /\ load_state(state_dir, fs[p][1])[1].current_model # m)
        => LET saved == load_state(state_dir, fs[p][1])[1]
               r     == resume(p, m)
           IN  /\ r.kind = "run"
               /\ r.model = m
               /\ r.state[1].current_model = m
               /\ r.state_dir[saved.file_hash][1].current_model = m
               /\ start_index(r.state[1]) = saved.processed_chunks

\* C15: on every entry path a model absent from the pricing table is a
\* fatal error before any chunk is handed to the LLM client in that run: no
\* run with a provider client is ever inside _call_llm_api, or has
\* submitted a chunk, under a model that MODELS does not list.
C15_UnknownModelBeforeCall ==
    api_client # "demo" =>
        /\ pc = "call" => model \in DOMAIN MODELS
        /\ submitted # << >> => model \in DOMAIN MODELS

\* C17: a job's status only moves forward along queued, preprocessing,
\* estimating, processing, then completed, cancelled or failed: no step of
\* the worker or of a handler replaces a status by an earlier one, and a
\* completed, cancelled or failed status never changes again.
StatusRank(status) ==
    CASE status = "queued"        -> 0
      [] status = "preprocessing" -> 1
      [] status = "estimating"    -> 2
      [] status = "processing"    -> 3
      [] OTHER                    -> 4

C17_ForwardStep ==
    \A j \in JobIds :
        ~IsNone(jobs[j]) =>
            /\ ~IsNone(jobs'[j])
            /\ StatusRank(jobs'[j][1].status) >= StatusRank(jobs[j][1].status)
            /\ StatusRank(jobs[j][1].status) = 4 =>
                  jobs'[j][1].status = jobs[j][1].status

C17_StatusMovesForward == [][C17_ForwardStep]_vars

\* C18: every update of a job's fields is made while the job's lock is
\* held, so a status response never shows a partially applied worker
\* update: a status that is queued, preprocessing or failed comes with the
\* message the worker sets together with it.
C18_UpdateInsideRegion ==
    \A j \in JobIds :
        (~IsNone(jobs[j]) /\ jobs'[j] # jobs[j]) => job_locks[j] = Some("locked")

C18_ConsistentSnapshot ==
    (response.route = "status" /\ response.code = 200) =>
        LET seen == response.body[1]
        IN  /\ seen.status = "queued" => seen.message = MsgQueued
            /\ seen.status = "preprocessing" =>
                  seen.message \in { MsgPreprocessing, MsgChunking }
            /\ seen.status = "failed" => seen.message = MsgFailed

C18_ExclusiveAccess ==
    /\ []C18_ConsistentSnapshot
    /\ [][C18_UpdateInsideRegion]_vars

\* C16 (as stated): missing LLM credentials are fatal at job start on every
\* front end: an upload without API key creates no job, and a CLI process
\* or resume without API key (the client is then None, the demo client)
\* never enters the loop, submits no chunk and records no result.
UploadWithoutKeyRejected ==
    \A has_file \in BOOLEAN, filename \in UploadNames, job_id \in JobIds :
        LET r == upload_file(jobs, job_locks, has_file, filename, "", job_id)
        IN  /\ r.code = 400
            /\ ~r.started
            /\ r.jobs = jobs
            /\ r.job_locks = job_locks

C16_MissingCredentialsFatal ==
    /\ UploadWithoutKeyRejected
    /\ api_client = "demo" => (pc \notin { "loop", "call" } /\ submitted = << >>)

\* C16 (amended): missing credentials are fatal at job start on the HTTP
\* front end only, where the upload is rejected before a job exists.  The
\* CLI process and resume commands run in demo mode instead: each chunk
\* handed to _call_llm_api is recorded with a simulated result, whose
\* input_tokens is the chunk's token estimate, whose output_tokens is 500
\* and whose cost is the price of these for the run's model.
DemoStepRecordsSimulation ==
    (pc = "call" /\ pc' = "loop" /\ api_client = "demo") =>
        /\ Len(state'[1].results) = Len(state[1].results) + 1
        /\ state'[1].results[Len(state'[1].results)] =
              [chunk_index |-> i,
               response |-> << "demo", chunks[i + 1].index >>,
               input_tokens |-> chunks[i + 1].token_estimate,
               output_tokens |-> DemoOutputTokens,
               cost |-> estimate_cost(model, chunks[i + 1].token_estimate,
                                      DemoOutputTokens).cost]

C16_MissingCredentialsHttpOnly ==
    /\ []UploadWithoutKeyRejected
    /\ [][DemoStepRecordsSimulation]_vars

\* a CLI run without credentials has recorded a simulated result
C16_Witness ==
    /\ api_client = "demo"
    /\ pc = "loop"
    /\ submitted # << >>
    /\ state[1].results # << >>
    /\ state[1].results[Len(state[1].results)].response[1] = "demo"
    /\ state[1].results[Len(state[1].results)].output_tokens = DemoOutputTokens

\* the texts of the units of a document, in source order
\* the document has text units only
TextOnly(contents) == \A k \in 1..Len(contents) : contents[k].content_type = "text"

SourceTexts(contents) == [k \in 1..Len(contents) |-> contents[k].data]

\* chunk k without the overlap carried into it: the trailing `overlap`
\* characters of chunk k-1's text, or that whole text when it is shorter
WithoutCarriedOverlap(chs, k, overlap) ==
    IF k = 1 THEN chs[1].text_content[1]
    ELSE PySliceFrom(chs[k].text_content[1],
                     Min(overlap, Len(chs[k - 1].text_content[1])))

RECURSIVE Reassembled(_, _, _)
Reassembled(chs, k, overlap) ==
    IF k > Len(chs) THEN << >>
    ELSE WithoutCarriedOverlap(chs, k, overlap) \o Reassembled(chs, k + 1, overlap)

\* C19: round trip for text-only input: for every sequence of text units
\* and every chunk size larger than the overlap, the chunk texts in index
\* order, each non-first one without its leading carried overlap, put
\* together give the original text (the units joined by blank lines)
\* exactly.
C19_RoundTrip ==
    (~IsNone(builder_chunks) /\ TextOnly(builder_input.contents)
       /\ builder_input.chunk_size > builder_input.overlap)
    => Reassembled(builder_chunks[1], 1, builder_input.overlap)
         = JoinTexts(SourceTexts(builder_input.contents))

\* C20: for every chunk size larger than the overlap, every chunk other
\* than the first and the final one has a text of at least `overlap`
\* characters.
C20_MinChunkLength ==
    (~IsNone(builder_chunks) /\ TextOnly(builder_input.contents)
       /\ builder_input.chunk_size > builder_input.overlap)
    => \A k \in 2..(Len(builder_chunks[1]) - 1) :
          Len(builder_chunks[1][k].text_content[1]) >= builder_input.overlap

\* the chunks of a list carry the indices 0, 1, 2, ... in list order
DenseIndices(chs) == \A k \in 1..Len(chs) : chs[k].index = k - 1

\* C21: for every document (text and image units) and every chunk size and
\* overlap, the chunk list _create_smart_chunks returns has
\* chunks[k].index = k for every k, and so has the list create_chunks is
\* building at every iteration of its loop.
C21_DenseIndices ==
    /\ ~IsNone(builder_chunks) => DenseIndices(builder_chunks[1])
    /\ DenseIndices(plain_frame.locals.chunks)

\* a document with an image was cut into three chunks or more
C21_Witness ==
    /\ ~IsNone(builder_chunks)
    /\ Len(builder_chunks[1]) >= 3
    /\ ~TextOnly(builder_input.contents)

\* the text of a chunk, empty for a chunk of images only
ChunkText(c) == IF IsNone(c.text_content) THEN << >> ELSE c.text_content[1]

\* sub occurs in text
Contains(text, sub) ==
    \E b \in 0..(Len(text) - Len(sub)) : SubSeq(text, b + 1, b + Len(sub)) = sub

\* the chunks of chs whose text holds the text unit whole
Holders(chs, data) == { k \in 1..Len(chs) : Contains(ChunkText(chs[k]), data) }

\* chunk k holds the unit and no other one: its text is the unit, or at
\* most `overlap` trailing characters of chunk k-1 and the unit after them
AloneIn(chs, k, data, overlap) ==
    \/ ChunkText(chs[k]) = data
    \/ /\ k > 1
       /\ \E n \in 1..Min(overlap, Len(ChunkText(chs[k - 1]))) :
             ChunkText(chs[k])
               = JoinTexts(<< PySliceFrom(ChunkText(chs[k - 1]), -n), data >>)

\* unit j is a text longer than chunk_size that occurs once in the document
Oversized(contents, j, chunk_size) ==
    /\ contents[j].content_type = "text"
    /\ Len(contents[j].data) > chunk_size
    /\ \A l \in 1..Len(contents) : contents[l].data = contents[j].data => l = j

\* C22: a text unit longer than chunk_size is never split: wherever it
\* stands in the document it is whole in exactly one chunk of the list
\* _create_smart_chunks returns, and that chunk holds no other text unit,
\* only overlap carried from the chunk before (chunk sizes larger than the
\* overlap).
C22_OversizedUnitWhole ==
    (~IsNone(builder_chunks) /\ builder_input.chunk_size > builder_input.overlap)
    => \A j \in 1..Len(builder_input.contents) :
          Oversized(builder_input.contents, j, builder_input.chunk_size)
          => /\ Cardinality(Holders(builder_chunks[1], builder_input.contents[j].data)) = 1
             /\ \A k \in Holders(builder_chunks[1], builder_input.contents[j].data) :
                   AloneIn(builder_chunks[1], k, builder_input.contents[j].data,
                           builder_input.overlap)

\* C23: a call of a chunk builder with overlap >= chunk_size is rejected:
\* _create_smart_chunks returns no chunk list, and create_chunks neither
\* returns one nor builds a chunk.
C23_OverlapRejected ==
    builder_input.overlap >= builder_input.chunk_size
    => /\ IsNone(builder_chunks)
       /\ plain_frame.pc # "returned"
       /\ plain_frame.locals.chunks = << >>

\* the trailing `overlap` characters of a text: the whole text when it is
\* shorter, nothing when overlap = 0
TrailingChars(text, overlap) == SubSeq(text, Max(Len(text) - overlap, 0) + 1, Len(text))

\* a chunk text made of the carried text and the chunk's own units
CarriedThenUnits(carried, texts) ==
    IF Len(carried) = 0 THEN JoinTexts(texts) ELSE JoinTexts(<< carried >> \o texts)

RECURSIVE CarriesTrailingChars(_, _, _, _, _)
\* the chunks from k on are the units from `from` on in runs, each chunk
\* after the first starting with the trailing characters of the one before
CarriesTrailingChars(chs, k, texts, from, overlap) ==
    IF k > Len(chs) THEN from > Len(texts)
    ELSE \E to \in from..Len(texts) :
            /\ ChunkText(chs[k])
                 = CarriedThenUnits(IF k = 1 THEN << >>
                                    ELSE TrailingChars(ChunkText(chs[k - 1]), overlap),
                                    SubSeq(texts, from, to))
            /\ CarriesTrailingChars(chs, k + 1, texts, to + 1, overlap)

\* C24: for every text-only document and every overlap >= 0 below the
\* chunk size, each chunk after the first is the trailing `overlap`
\* characters of the full text of the chunk before it (that whole text when
\* it is shorter, nothing when overlap = 0) followed by the chunk's own
\* units.
C24_CarriedOverlap ==
    (~IsNone(builder_chunks) /\ TextOnly(builder_input.contents)
       /\ builder_input.chunk_size > builder_input.overlap)
    => CarriesTrailingChars(builder_chunks[1], 1, SourceTexts(builder_input.contents),
                            1, builder_input.overlap)

\* what is filed for the content of a 0-byte file
EmptyHash == calculate_file_hash(EmptyBytes)

\* nothing was processed and nothing was spent
NothingProcessed(st) ==
    /\ st.total_chunks = 0
    /\ st.processed_chunks = 0
    /\ st.results = << >>
    /\ st.total_cost = 0

\* C25: end to end on a 0-byte text file: the chunk list (cached and in the
\* run) is empty, the state created has total_chunks = 0, and the run makes
\* no LLM call and leaves processed_chunks = 0, no results and total_cost = 0,
\* in memory and on disk.
C25_EmptyFile ==
    /\ ~IsNone(chunk_dir[EmptyHash]) => chunk_dir[EmptyHash][1] = << >>
    /\ ~IsNone(state_dir[EmptyHash]) => NothingProcessed(state_dir[EmptyHash][1])
    /\ (~IsNone(state) /\ state[1].file_hash = EmptyHash)
       => /\ chunks = << >>
          /\ submitted = << >>
          /\ pc # "call"
          /\ NothingProcessed(state[1])

\* the document is a text file of exactly chunk_size characters, and the
\* chunk size is larger than the overlap
ExactSizeFile ==
    /\ IsTextFile(builder_input.contents)
    /\ Len(builder_input.contents[1].data) = builder_input.chunk_size
    /\ builder_input.chunk_size > builder_input.overlap

\* C26: a text file of exactly chunk_size characters yields exactly one
\* chunk with original_position = 0, and the chunk count create_chunks gives
\* for it (the total_chunks of the state created) is 1.
C26_ExactSizeFile ==
    ExactSizeFile
    => /\ ~IsNone(builder_chunks)
          => /\ Len(builder_chunks[1]) = 1
             /\ builder_chunks[1][1].original_position = 0
       /\ plain_frame.pc = "returned" => Len(plain_frame.locals.chunks) = 1

\* the (chunk_size, overlap) pairs preprocess_and_chunk is called with
CacheParams == { << 1, 0 >>, << DefaultChunkSize, DefaultOverlap >> }

\* the chunk lists _create_smart_chunks builds for a file
BuiltLists(path) ==
    { create_smart_chunks(extract_content(path, fs[path][1]).contents, p[1], p[2]) :
         p \in CacheParams }

\* every chunk file of a present file decodes to the list that was built
\* and written, field for field
CacheHoldsSavedList ==
    \A path \in Paths :
       (~IsNone(fs[path]) /\ ~IsNone(chunk_dir[calculate_file_hash(fs[path][1])]))
       => \E built \in BuiltLists(path) :
             /\ chunk_dir[calculate_file_hash(fs[path][1])][1] = chunk_data(built)
             /\ load_chunks(chunk_dir[calculate_file_hash(fs[path][1])][1]) = built

\* a run that starts on a file whose chunk file exists works on the stored
\* list, and no step changes a chunk file that exists
CacheHitStep ==
    /\ \A h \in Hashes : ~IsNone(chunk_dir[h]) => chunk_dir'[h] = chunk_dir[h]
    /\ (pc # "loop" /\ pc' = "loop" /\ ~IsNone(chunk_dir[state'[1].file_hash]))
       => chunks' = load_chunks(chunk_dir[state'[1].file_hash][1])

\* C27: preprocess_and_chunk looks for the chunk file of the content hash
\* before rebuilding: on a hit it returns the stored list, field for field
\* the list that was saved, whatever the extractor and the chunk builder
\* would give for the file now, and leaves the chunk file as it is.
C27_CacheHit == [] CacheHoldsSavedList /\ [][CacheHitStep]_vars

\* a run works on a stored list that differs from the list the builder
\* gives with the chunk size the run asked for
C27_Witness ==
    /\ pc = "loop"
    /\ ~IsNone(fs["c.pdf"])
    /\ state[1].file_hash = calculate_file_hash(fs["c.pdf"][1])
    /\ chunks = load_chunks(chunk_dir[state[1].file_hash][1])
    /\ chunks # create_smart_chunks(extract_content("c.pdf", fs["c.pdf"][1]).contents,
                                    DefaultChunkSize, DefaultOverlap)

\* C28: estimate_cost(model, 0, 0) is 0 for every model of the pricing
\* table, and for a model that is not in the table estimate_cost raises
\* (returns no cost) whatever the token counts.
C28_ZeroAndUnknown ==
    ~IsNone(pricing_result.cost)
    => /\ (pricing_call.model \in DOMAIN MODELS
             /\ pricing_call.input_tokens = 0 /\ pricing_call.output_tokens = 0)
          => (pricing_result.cost[1].ok /\ pricing_result.cost[1].cost = 0)
       /\ pricing_call.model \notin DOMAIN MODELS => ~pricing_result.cost[1].ok

\* estimate_cost raised on an unknown model with tokens to price
C28_Witness ==
    /\ ~IsNone(pricing_result.cost)
    /\ pricing_call.model \notin DOMAIN MODELS
    /\ pricing_call.input_tokens > 0
    /\ ~pricing_result.cost[1].ok

\* input * priceIn + output * priceOut from the table
TablePrice(m, input_tokens, output_tokens) ==
    input_tokens * MODELS[m].input + output_tokens * MODELS[m].output

\* m has the least value of f among the models of the table
Cheapest(f, m) == \A n \in DOMAIN MODELS : f[m] <= f[n]

\* C29: for all token counts >= 0, compare_models returns exactly one entry
\* per model of the pricing table, each the value estimate_cost gives for
\* that model, and the entries of least cost are the models with the least
\* input * priceIn + output * priceOut; for 1,000,000 input and 100,000
\* output tokens gpt-4o-mini costs strictly less than claude-opus-4.
C29_CompareModels ==
    ~IsNone(pricing_result.comparison)
    => LET costs == pricing_result.comparison[1]
           input_tokens  == pricing_call.input_tokens
           output_tokens == pricing_call.output_tokens
       IN  /\ DOMAIN costs = DOMAIN MODELS
           /\ \A m \in DOMAIN MODELS :
                 /\ estimate_cost(m, input_tokens, output_tokens).ok
                 /\ costs[m] = estimate_cost(m, input_tokens, output_tokens).cost
                 /\ Cheapest(costs, m)
                    <=> \A n \in DOMAIN MODELS :
                           TablePrice(m, input_tokens, output_tokens)
                             <= TablePrice(n, input_tokens, output_tokens)
           /\ (input_tokens = 1000000 /\ output_tokens = 100000)
              => costs["gpt-4o-mini"] < costs["claude-opus-4"]

\* the comparison for 1,000,000 input and 100,000 output tokens was made
C29_Witness ==
    /\ ~IsNone(pricing_result.comparison)
    /\ pricing_call.input_tokens = 1000000
    /\ pricing_call.output_tokens = 100000
    /\ Cheapest(pricing_result.comparison[1], "gpt-4o-mini")

\* the step is an entry that started over: initialize_processing made a
\* fresh state, nothing processed and nothing spent
StartedOver(st) ==
    /\ invocations' = invocations + 1
    /\ st.processed_chunks = 0
    /\ st.results = << >>
    /\ st.total_cost = 0

\* the total_cost on disk of a hash does not decrease in the step
DurableCostKept(h) ==
    (~IsNone(state_dir[h]) /\ ~IsNone(state_dir'[h]))
    => state_dir'[h][1].total_cost >= state_dir[h][1].total_cost

\* the total_cost in memory does not decrease in the step, when the state
\* before and the state after are of the same content
MemoryCostKept ==
    (~IsNone(state) /\ ~IsNone(state') /\ state'[1].file_hash = state[1].file_hash)
    => state'[1].total_cost >= state[1].total_cost

SubmittedRange(from, to) ==
    /\ Len(submitted) = to - from
    /\ \A j \in 1..Len(submitted) : submitted[j] = from + j - 1

\* where a run stands: it started at i - (calls returned), every chunk
\* below i is recorded, and the calls made are the chunks from the start in
\* increasing order
RunProgress ==
    /\ pc = "loop"
       => /\ state[1].processed_chunks = i
          /\ Len(state[1].results) = i
          /\ SubmittedRange(i - Len(submitted), i)
    /\ pc = "call"
       => /\ state[1].processed_chunks = i
          /\ SubmittedRange(i + 1 - Len(submitted), i + 1)
    /\ (pc = "done" /\ outcome = "completed")
       => /\ state[1].processed_chunks = Len(chunks)
          /\ Len(state[1].results) = Len(chunks)
          /\ SubmittedRange(Len(chunks) - Len(submitted), Len(chunks))

\* a run starts at the processed_chunks of its state, with no call made
RunStartsAtProcessed ==
    (pc \notin { "loop", "call" } /\ pc' = "loop")
    => /\ i' = state'[1].processed_chunks
       /\ i' <= Len(chunks')
       /\ submitted' = << >>

\* C31: if no pause is requested and every LLM call returns, a run started
\* on a state with processed_chunks = k over n chunks ends after exactly
\* n - k calls, of the chunks k, k+1, ..., n-1 in that order, with
\* processed_chunks = n and one result per chunk (no call when k = n).
C31_RunTerminates ==
    /\ [] RunProgress
    /\ [][RunStartsAtProcessed]_vars
    /\ (pc \in { "loop", "call" })
         ~> ((pc = "done" /\ outcome = "completed")
             \/ pause_requested \/ outcome = "raised")

\* a resumed run completed: it started above chunk 0 and made the calls left
C31_Witness ==
    /\ pc = "done"
    /\ outcome = "completed"
    /\ Len(submitted) >= 2
    /\ submitted[1] > 0
    /\ state[1].processed_chunks = Len(chunks)

RECURSIVE SumLen(_)
\* the characters of a list of texts
SumLen(texts) == IF Len(texts) = 0 THEN 0 ELSE Len(Head(texts)) + SumLen(Tail(texts))

\* the locals of _create_smart_chunks after the first j units of the call
LocalsAfter(j) ==
    SmartChunkLoop(SmartChunkLocals, SubSeq(builder_input.contents, 1, j),
                   builder_input.chunk_size, builder_input.overlap)

\* unit j + 1 closes a chunk exactly when it is a text that arrives at a
\* non-empty text buffer and takes the size counter over chunk_size, and
\* the counter is the length of the pending texts plus 3000 per pending
\* image
SplitOnlyByText(j) ==
    LET before == LocalsAfter(j)
        after  == LocalsAfter(j + 1)
        unit   == builder_input.contents[j + 1]
        due    == /\ unit.content_type = "text"
                  /\ Len(before.current_text) > 0
                  /\ before.current_size + Len(unit.data) > builder_input.chunk_size
    IN  /\ before.current_size = SumLen(before.current_text)
                                 + ImageSizeWeight * Len(before.current_images)
        /\ Len(after.chunks) = Len(before.chunks) + (IF due THEN 1 ELSE 0)

\* the document is one image or more and nothing else
ImagesOnly(contents) ==
    /\ Len(contents) >= 1
    /\ \A k \in 1..Len(contents) : contents[k].content_type = "image"

\* C32: adding an image unit never closes a chunk: a chunk is closed only by
\* a text unit that arrives while the pending text buffer is non-empty and
\* the size counter (text lengths plus 3000 per pending image) plus the
\* unit's length exceeds chunk_size; a document of images only, however
\* many, gives exactly one chunk, of type image.
C32_ImagesNeverSplit ==
    ~IsNone(builder_chunks)
    => /\ \A j \in 0..(Len(builder_input.contents) - 1) : SplitOnlyByText(j)
       /\ ImagesOnly(builder_input.contents)
          => /\ Len(builder_chunks[1]) = 1
             /\ builder_chunks[1][1].content_type = "image"
             /\ Len(builder_chunks[1][1].image_data) = Len(builder_input.contents)

\* two images followed a text in a document that was cut into chunks
C32_Witness ==
    /\ ~IsNone(builder_chunks)
    /\ Len(builder_input.contents) >= 3
    /\ builder_input.contents[1].content_type = "text"
    /\ builder_input.contents[2].content_type = "image"
    /\ builder_input.contents[3].content_type = "image"
    /\ Len(builder_chunks[1]) >= 2

\* C33: in every run started by process_file, also one that continues a
\* saved state created with another model, a chunk is submitted with, and
\* its cost computed for, the model that state.current_model records at that
\* moment.
C33_ModelIsCurrentModel ==
    (pc = "call" /\ aliased) => model = state[1].current_model

\* the step in which a run stops on a pause, chunks remaining, takes the
\* request with it
PauseStopConsumes ==
    (pc = "loop" /\ pc' = "done" /\ outcome' = "paused") => ~pause_requested'

\* C34: a pause request is consumed by the run it stops: once a run has
\* stopped on a pause with processed_chunks = k < n the request is no
\* longer pending, so that the next run on the same IntegratedProcessor,
\* with no new request, goes on to the remaining chunks.
C34_PauseConsumed == [][PauseStopConsumes]_vars

\* a job that is cancelled stays cancelled, processes no further chunk and
\* gets no result file
CancelledStays(j) ==
    (~IsNone(jobs[j]) /\ jobs[j][1].status = "cancelled")
    => /\ ~IsNone(jobs'[j])
       /\ jobs'[j][1].status = "cancelled"
       /\ jobs'[j][1].processed_chunks = jobs[j][1].processed_chunks
       /\ IsNone(jobs'[j][1].result_file)

\* C35: a cancel request accepted for a job that is not yet completed or
\* failed, wherever the worker stands, is effective: from the request on
\* the job's status is cancelled to the end, no later chunk is processed
\* and no result file is recorded.
C35_CancelIsEffective == [][\A j \in JobIds : CancelledStays(j)]_vars

\* C36: at every point of a run, and when the process is killed at any
\* point of it, the results on disk are a prefix of the results in memory
\* and processed_chunks in memory is at most 9 ahead of processed_chunks on
\* disk: a crash loses at most 9 recorded results.
C36_AtMostNineBehind ==
    (pc \in { "loop", "call", "crashed" } /\ ~IsNone(state))
    => /\ ~IsNone(Durable(state[1]))
       /\ ~IsTruncated(Durable(state[1]))
       /\ IsPrefix(Durable(state[1])[1].results, state[1].results)
       /\ state[1].processed_chunks - Durable(state[1])[1].processed_chunks
            \in 0..(CheckpointEvery - 1)

\* C37: for every file and every (chunk_size, overlap), preprocess_and_chunk
\* returns the list _create_smart_chunks builds from the file's extracted
\* content with those values, whether or not a chunk file of the same
\* content was written by an earlier call with other values.
C37_ChunksForParameters ==
    \A path \in Paths, p \in CacheParams :
       (~IsNone(fs[path]) /\ extract_content(path, fs[path][1]).ok)
       => preprocess_and_chunk(chunk_dir, path, fs[path][1], p[1], p[2]).chunks
            = create_smart_chunks(extract_content(path, fs[path][1]).contents,
                                  p[1], p[2])

\* the job ended as the claim says: completed, every chunk processed, the
\* result file recorded
JobCompleted(j) ==
    /\ ~IsNone(jobs[j])
    /\ jobs[j][1].status = "completed"
    /\ ~IsNone(jobs[j][1].total_chunks)
    /\ jobs[j][1].processed_chunks = jobs[j][1].total_chunks
    /\ ~IsNone(jobs[j][1].result_file)

\* C38: a job submitted through the upload endpoint with a supported file
\* and an API key, and never cancelled, eventually reaches status completed
\* with processed_chunks = total_chunks and a result file recorded.
C38_JobCompletes ==
    \A j \in JobIds :
       (~IsNone(jobs[j]))
         ~> (JobCompleted(j) \/ (~IsNone(jobs[j]) /\ jobs[j][1].status = "cancelled"))

RECURSIVE SumCosts(_)
\* the sum of the cost entries of a results list
SumCosts(results) ==
    IF results = << >> THEN 0
    ELSE results[1].cost + SumCosts(Tail(results))

\* the total_cost of a state, or of a state dictionary, is the sum of the
\* costs of its results
CostIsSum(st) == st.total_cost = SumCosts(st.results)

\* C39: in every ProcessingState, in memory at a chunk boundary and in every
\* state file that holds a whole dictionary, total_cost is the sum of
\* results[k].cost over the recorded results.
C39_TotalCostIsSum ==
    /\ (~IsNone(state)) => CostIsSum(state[1])
    /\ \A h \in DOMAIN state_dir :
          (~IsNone(state_dir[h]) /\ ~IsTruncated(state_dir[h]))
          => CostIsSum(state_dir[h][1])

\* a run has recorded three results of positive cost, and a state file on
\* disk holds two or more results
C39_Witness ==
    /\ ~IsNone(state)
    /\ Len(state[1].results) >= 3
    /\ \A k \in 1..Len(state[1].results) : state[1].results[k].cost > 0
    /\ state[1].total_cost = SumCosts(state[1].results)
    /\ \E h \in DOMAIN state_dir :
          /\ ~IsNone(state_dir[h])
          /\ ~IsTruncated(state_dir[h])
          /\ Len(state_dir[h][1].results) >= 2
          /\ state_dir[h][1].total_cost = SumCosts(state_dir[h][1].results)
          /\ state_dir[h][1].total_cost > 0

\* the parameters of the call satisfy 0 <= overlap < chunk_size
OverlapBelowSize ==
    builder_input.overlap >= 0 /\ builder_input.overlap < builder_input.chunk_size

\* create_chunks is in its loop
InPlainLoop == plain_frame.pc = "loop"

\* an iteration of the loop moves start forward by chunk_size - overlap,
\* which is one or more
StartAdvances ==
    (InPlainLoop /\ OverlapBelowSize /\ plain_frame'.locals # plain_frame.locals)
    => /\ plain_frame'.locals.start
            = plain_frame.locals.start
                + builder_input.chunk_size - builder_input.overlap
       /\ plain_frame'.locals.start > plain_frame.locals.start

\* with such parameters the loop is never left with iterations remaining
\* because MaxPlainChunks was reached
NeverCut ==
    (InPlainLoop /\ OverlapBelowSize
       /\ PlainChunkMore(builder_input.contents[1].data, plain_frame.locals))
    => Len(plain_frame.locals.chunks) < MaxPlainChunks

\* C40: create_chunks terminates for every file content when
\* 0 <= overlap < chunk_size: each iteration moves start forward by
\* chunk_size - overlap, and the call returns once start has reached the
\* length of the content.
C40_CreateChunksTerminates ==
    /\ [][StartAdvances]_vars
    /\ []NeverCut
    /\ (InPlainLoop /\ OverlapBelowSize)
         ~> (plain_frame.pc = "returned"
               /\ plain_frame.locals.start
                    >= Len(builder_input.contents[1].data))

\* a call with overlap below chunk_size has returned after three or more
\* iterations
C40_Witness ==
    /\ plain_frame.pc = "returned"
    /\ OverlapBelowSize
    /\ builder_input.overlap > 0
    /\ Len(plain_frame.locals.chunks) >= 3
    /\ plain_frame.locals.start >= Len(builder_input.contents[1].data)

====
